---- MODULE Spec2Model ----
(***************************************************************************)
(* Model of the SCJN case-file analyzer (src/main.py and collaborators).   *)
(*                                                                         *)
(* Part 1: the batch coordinator (SCJNAnalyzer.procesar_expediente_        *)
(* completo), the retrying extractor (procesar_documento_con_timeout),     *)
(* the audit log store (cargar_bitacora_existente / guardar_bitacora),     *)
(* the SIGINT handler (_signal_handler) and the completeness check         *)
(* (_verificar_expediente_completo).                                       *)
(*                                                                         *)
(* One operating-system process runs at a time over the case directory;    *)
(* pc = "idle" means no process is running.  The case directory, the       *)
(* persisted audit log and the per-document artifacts survive between      *)
(* processes; the analyzer object's fields do not.  A write of the audit   *)
(* log file is taken as one step (the spec excludes failures in the        *)
(* middle of a write).                                                     *)
(***************************************************************************)
EXTENDS Integers, Sequences, FiniteSets, TLC

\* ---------------------------------------------------------------- bounds
MaxCorridas == 2        \* number of processes started over the case
MaxReintentos == 1      \* largest value given to --reintentos

\* ------------------------------------------------------------- universe
\* File names that may appear in the case directory, listed in the order
\* sorted() gives them (lexicographic).
DocUniverse == <<"A.pdf", "A.txt">>

DocNames == {DocUniverse[k] : k \in DOMAIN DocUniverse}

Expediente == "123-2024"

\* Path.suffix.lower() of a file name.
Extension(d) ==
    CASE d = "A.pdf" -> ".pdf"
      [] d = "A.txt" -> ".txt"

\* Path.stem of a file name.
Stem(d) ==
    CASE d = "A.pdf" -> "A"
      [] d = "A.txt" -> "A"

\* Values --reintentos can take: argparse accepts any int.
ValoresReintentos == (-1) .. MaxReintentos

VARIABLES
    \* ---- the case directory (persistent)
    documentos,            \* names of the supported files in the folder
    bitacora_disco,        \* bitacora_detallada of jsons/bitacora_proceso.json
    resumen_disco,         \* resumen_expediente of jsons/bitacora_proceso.json
    artefactos,            \* names of the jsons/<stem>_mapeado.json files
    \* ---- the running process
    pc,                    \* position of the process
    max_reintentos,        \* config.max_reintentos
    tokens_totales,        \* self.tokens_totales
    expediente_actual,     \* self.expediente_actual
    bitacora,              \* self.bitacora
    proceso_interrumpido,  \* self.proceso_interrumpido
    docs_pendientes,       \* docs_pendientes of procesar_expediente_completo
    i,                     \* loop index over docs_pendientes
    intento,               \* loop index over range(max_reintentos + 1)
    error_actual,          \* the exception caught by the retry loop
    resultado,             \* value returned by procesar_documento_con_timeout
    expediente_completo,   \* value returned by procesar_expediente_completo
    codigo_salida,         \* exit status of the last process
    \* ---- observation (history) variables
    corrida,               \* number of processes started so far
    bitacora_inicio,       \* persisted log when the current process started
    servicio_llamado,      \* the current process has called the service
    escrituras_bitacora,   \* writes of the log file by the current process
    intentos_doc,          \* attempts begun in the current extractor call
    fallos_doc,            \* attempts that failed in the current extractor call
    pausas_reintento,      \* retry sleeps in the current extractor call
    base_doc,              \* Len(bitacora) when the current extractor call began
    pausas_documentos,     \* inter-document pauses of the current process
    senal_en_doc,          \* document in flight when the exiting signal came
    salida_previa,         \* how the last process ended
    sin_agregados          \* no document added since the last process ended

batchVars == << documentos, bitacora_disco, resumen_disco, artefactos, pc,
                max_reintentos, tokens_totales,
                expediente_actual, bitacora, proceso_interrumpido,
                docs_pendientes, i, intento, error_actual, resultado,
                expediente_completo, codigo_salida, corrida, bitacora_inicio,
                servicio_llamado, escrituras_bitacora, intentos_doc,
                fallos_doc, pausas_reintento, base_doc, pausas_documentos,
                senal_en_doc, salida_previa, sin_agregados >>

dirVars == << documentos, bitacora_disco, resumen_disco, artefactos >>

docObs == << intentos_doc, fallos_doc, pausas_reintento, base_doc >>

VARIABLES
    \* ---- consolidation: the jsons/ folder and the CaseContext (persistent)
    archivos_json,         \* lista_archivos_json, in the order glob gives
    contenido_archivo,     \* what each *_mapeado.json file holds
    contexto_disco,        \* the CONTEXTO_<id_caso>.json file
    \* ---- consolidation: the running call
    pc_c,                  \* position in crear_contexto_del_caso_robusto
    idx_c,                 \* loop index over lista_archivos_json
    hitos_procesales,      \* hitos_procesales
    expediente_principal,  \* expediente_principal
    \* ---- consolidation: observation (history) variables
    corridas_c,            \* number of consolidations started so far
    contexto_previo,       \* CaseContext written by the previous call
    entrada_previa         \* lista_archivos_json of the previous call

consVars == << archivos_json, contenido_archivo, contexto_disco, pc_c, idx_c,
               hitos_procesales, expediente_principal, corridas_c,
               contexto_previo, entrada_previa >>

VARIABLES
    \* ---- section pipeline: the reporte/ folder (persistent)
    checkpoint_disco,      \* the checkpoint_secciones_<expediente>.json file
    archivos_seccion,      \* the seccion_<nombre>_... .json files
    proyecto_md,           \* the proyecto_sentencia_... .md file last written
    \* ---- section pipeline: the running call
    pc_s,                  \* position in generar_secciones_proyecto
    progreso_existente,    \* progreso_existente
    idx_s,                 \* loop index over pipeline_secciones
    \* ---- section pipeline: observation (history) variables
    corridas_s,            \* number of pipeline runs started so far
    completadas_inicio,    \* completed set of the file when the run started
    habia_checkpoint,      \* the checkpoint file existed when the run started
    generadas_corrida,     \* sections the run asked the service to generate
    fallidas_corrida       \* sections whose generation failed in the run

secVars == << checkpoint_disco, archivos_seccion, proyecto_md, pc_s,
              progreso_existente, idx_s, corridas_s, completadas_inicio,
              habia_checkpoint, generadas_corrida, fallidas_corrida >>

VARIABLES
    \* ---- quote splitting: one call of a splitter
    cita_texto,            \* texto / cita_texto, the quote to split
    fragmentos,            \* the list the splitter returned
    citas_artefacto,       \* the quotes in the *_mapeado.json file written
    pc_q                   \* position: which splitter has returned

citaVars == << cita_texto, fragmentos, citas_artefacto, pc_q >>

VARIABLES
    \* ---- main(): the invocation
    ruta,                  \* what args.expediente names on disk
    modo,                  \* args.modo
    stdin_lineas,          \* the lines standard input holds, stripped
    \* ---- main(): the running process
    pc_m,                  \* position in main()
    leidas,                \* lines input() has consumed
    completo_m,            \* expediente_completo of main()
    codigo_m,              \* exit status of the process
    \* ---- main(): observation (history) variables
    traza,                 \* phase calls and returns, in order
    senal_m                \* the process ended in _signal_handler

mainVars == << ruta, modo, stdin_lineas, pc_m, leidas, completo_m, codigo_m,
               traza, senal_m >>

vars == << batchVars, consVars, secVars, citaVars, mainVars >>

\* What a batch step leaves alone.
fueraDeBatch == << consVars, secVars, citaVars, mainVars >>

\* ------------------------------------------------------------ audit log

\* BitacoraEntry as the extractor builds it (timestamp: the process number
\* stands for datetime.now(); the human message and the file metadata are
\* left out).
BitacoraEntry(t, d, s, det) ==
    [timestamp |-> t, documento |-> d, status |-> s, error_detalle |-> det]

\* entry.model_dump() with the timestamp turned into its ISO string.
EntryDict(entry) ==
    [timestamp |-> << "iso", entry.timestamp >>,
     documento |-> entry.documento,
     status |-> entry.status,
     error_detalle |-> entry.error_detalle]

\* BitacoraEntry(**entry_dict): pydantic parses the ISO string back.
EntryFromDict(dict) ==
    [timestamp |-> dict.timestamp[2],
     documento |-> dict.documento,
     status |-> dict.status,
     error_detalle |-> dict.error_detalle]

\* The list guardar_bitacora writes under "bitacora_detallada".
BitacoraDict(entries) == [k \in DOMAIN entries |-> EntryDict(entries[k])]

CargarSoloExitosas(disco) ==
    LET entries == [k \in DOMAIN disco |-> EntryFromDict(disco[k])]
    IN  SelectSeq(entries, LAMBDA e : e.status = "success")

\* cargar_bitacora_existente: the entries of the persisted log, in order
\* (a missing file and an empty list both load as the empty list).
CargarBitacoraExistente(disco) ==
    [k \in DOMAIN disco |-> EntryFromDict(disco[k])]

\* sorted(documentos) of listar_documentos_soportados.
ListarDocumentosSoportados(carpeta) ==
    SelectSeq(DocUniverse, LAMBDA d : d \in carpeta)


GuardarVacia(entries) == << >>

\* The file jsons/bitacora_proceso.json after guardar_bitacora.
GuardarBitacora(entries) == BitacoraDict(entries)

\* tokens_usados, the cost the service reports for a document.
TokensDe(d) ==
    CASE d = "A.pdf" -> 3
      [] d = "A.txt" -> 5

\* metadata.tokens_utilizados of an entry: set on success (line 277), None
\* in the metadata of an error entry.
TokensUtilizados(entry) ==
    IF entry.status = "success" THEN TokensDe(entry.documento) ELSE 0

\* tokens_acumulados of cargar_bitacora_existente (lines 102-111).
RECURSIVE TokensAcumulados(_)
TokensAcumulados(entries) ==
    IF entries = << >> THEN 0
    ELSE TokensAcumulados(SubSeq(entries, 1, Len(entries) - 1))
            + TokensUtilizados(entries[Len(entries)])

\* docs_exitosos of guardar_bitacora: the success entries, as a list.
EntradasExitosas(entries) ==
    SelectSeq(entries, LAMBDA e : e.status = "success")

\* "expediente_completo": len(docs_exitosos) == total_documentos_disponibles
CompletoPorConteo(entries, carpeta) ==
    Len(EntradasExitosas(entries)) = Len(ListarDocumentosSoportados(carpeta))

\* The fields of info_expediente (lines 470-480) that depend on the run.
ResumenExpediente(entries, carpeta, tokens) ==
    [expediente_completo |-> CompletoPorConteo(entries, carpeta),
     tokens_totales |-> tokens]

\* No jsons/bitacora_proceso.json file.
ResumenNinguno == [expediente_completo |-> FALSE, tokens_totales |-> 0]

\* ------------------------------------------------ resume (pending) logic

DocsDeCualquierEntrada(existente) ==
    {existente[k].documento : k \in DOMAIN existente}

\* docs_procesados_exitosamente of analizar_estado_expediente.
DocsProcesadosExitosamente(existente) ==
    {existente[k].documento :
        k \in {j \in DOMAIN existente : existente[j].status = "success"}}

DocsPendientesSinFiltro(disponibles, existente) == disponibles

\* docs_pendientes of analizar_estado_expediente, including the early
\* return of every available document when the loaded log is empty.
DocsPendientes(disponibles, existente) ==
    IF existente = << >>
    THEN disponibles
    ELSE SelectSeq(disponibles,
                   LAMBDA d : d \notin DocsProcesadosExitosamente(existente))

\* ------------------------------------------------------- completeness

DocsConEntrada(entries) == {entries[k].documento : k \in DOMAIN entries}

\* docs_exitosos of _verificar_expediente_completo.
DocsExitosos(entries) ==
    {entries[k].documento :
        k \in {j \in DOMAIN entries : entries[j].status = "success"}}

VerificarPorConteo(carpeta, entries) ==
    Cardinality(DocsExitosos(entries)) >=
        Len(ListarDocumentosSoportados(carpeta))

\* _verificar_expediente_completo: documentos_totales_nombres.issubset(...)
VerificarExpedienteCompleto(carpeta, entries) ==
    LET documentos_totales == ListarDocumentosSoportados(carpeta)
        documentos_totales_nombres ==
            {documentos_totales[k] : k \in DOMAIN documentos_totales}
    IN  documentos_totales_nombres \subseteq DocsExitosos(entries)

\* ------------------------------------------------------------ retries

QuedanReintentosInclusive(n, maximo) == n <= maximo

\* "if intento < self.config.max_reintentos" of the except branch.
QuedanReintentos(n, maximo) == n < maximo

\* range(self.config.max_reintentos + 1) still has the index n.
EnRango(n, maximo) == n >= 0 /\ n < maximo + 1

\* ------------------------------------------------------ signal handler

HandlerNuncaGuarda(entries, exp) == FALSE

\* "if self.bitacora and self.expediente_actual" of _signal_handler.
HandlerGuarda(entries, exp) == entries # << >> /\ exp # "None"

\* The persisted log after _signal_handler has run.
DiscoTrasHandler ==
    IF HandlerGuarda(bitacora, expediente_actual)
    THEN GuardarBitacora(bitacora)
    ELSE bitacora_disco

\* The summary of the persisted log after _signal_handler has run.
ResumenTrasHandler ==
    IF HandlerGuarda(bitacora, expediente_actual)
    THEN ResumenExpediente(bitacora, documentos, tokens_totales)
    ELSE resumen_disco

EscriturasTrasHandler ==
    IF HandlerGuarda(bitacora, expediente_actual)
    THEN escrituras_bitacora + 1
    ELSE escrituras_bitacora

\* ------------------------------------------- the other two phases, idle

\* No CONTEXTO_<id_caso>.json file.
ContextoNinguno ==
    [existe |-> FALSE, expediente_principal |-> "None",
     hitos_procesales |-> << >>]

\* No checkpoint_secciones_<expediente>.json file.
CheckpointNinguno ==
    [existe |-> FALSE, estado |-> "None", secciones_completadas |-> << >>,
     errores |-> << >>, tokens_totales |-> 0]

\* No proyecto_sentencia_<expediente>_<timestamp>.md file.
ProyectoNinguno ==
    [existe |-> FALSE, aviso_parcial |-> FALSE, bloques |-> << >>,
     pendientes |-> << >>]

\* Locals of crear_contexto_del_caso_robusto when no call is running.
ConsolidadorEnReposo ==
    /\ pc_c = "idle"
    /\ idx_c = 0
    /\ hitos_procesales = << >>
    /\ expediente_principal = "None"

\* --modo extraccion never calls the consolidator: an empty jsons/ folder
\* as far as this phase is concerned, and no CaseContext.
ConsolidadorInactivo ==
    /\ archivos_json = << >>
    /\ contenido_archivo = << >>
    /\ contexto_disco = ContextoNinguno
    /\ ConsolidadorEnReposo
    /\ corridas_c = 0
    /\ contexto_previo = ContextoNinguno
    /\ entrada_previa = << >>

\* Locals of generar_secciones_proyecto when no call is running.
SeccionesEnReposo ==
    /\ pc_s = "idle"
    /\ progreso_existente = CheckpointNinguno
    /\ idx_s = 0
    /\ completadas_inicio = {}
    /\ habia_checkpoint = FALSE
    /\ generadas_corrida = {}
    /\ fallidas_corrida = {}

\* --modo extraccion never calls the section pipeline.
SeccionesInactivo ==
    /\ checkpoint_disco = CheckpointNinguno
    /\ archivos_seccion = {}
    /\ proyecto_md = ProyectoNinguno
    /\ SeccionesEnReposo
    /\ corridas_s = 0

\* ---------------------------------------------------------------- Init

ArtefactosVacios == [s \in {Stem(d) : d \in DocNames} |-> "None"]

\* main() is not being followed.
MainInactivo ==
    /\ ruta = "carpeta"
    /\ modo = "completo"
    /\ stdin_lineas = << >>
    /\ pc_m = "idle"
    /\ leidas = 0
    /\ completo_m = FALSE
    /\ codigo_m = 0
    /\ traza = << >>
    /\ senal_m = FALSE

\* No quote is being split.
CitasInactivo ==
    /\ cita_texto = << >>
    /\ fragmentos = << >>
    /\ citas_artefacto = << >>
    /\ pc_q = "idle"

Init ==
    /\ documentos \in SUBSET DocNames
    /\ bitacora_disco = << >>
    /\ resumen_disco = ResumenNinguno
    /\ tokens_totales = 0
    /\ artefactos = ArtefactosVacios
    /\ pc = "idle"
    /\ max_reintentos = 0
    /\ expediente_actual = "None"
    /\ bitacora = << >>
    /\ proceso_interrumpido = FALSE
    /\ docs_pendientes = << >>
    /\ i = 0
    /\ intento = 0
    /\ error_actual = "None"
    /\ resultado = "None"
    /\ expediente_completo = FALSE
    /\ codigo_salida = 0
    /\ corrida = 0
    /\ bitacora_inicio = << >>
    /\ servicio_llamado = FALSE
    /\ escrituras_bitacora = 0
    /\ intentos_doc = 0
    /\ fallos_doc = 0
    /\ pausas_reintento = 0
    /\ base_doc = 0
    /\ pausas_documentos = 0
    /\ senal_en_doc = "None"
    /\ salida_previa = "ninguna"
    /\ sin_agregados = TRUE
    /\ ConsolidadorInactivo
    /\ SeccionesInactivo
    /\ CitasInactivo
    /\ MainInactivo

\* The batch phase when the program runs in another mode: no process of
\* --modo extraccion, nothing of it in memory.
BatchInactivo ==
    /\ documentos = {}
    /\ bitacora_disco = << >>
    /\ resumen_disco = ResumenNinguno
    /\ tokens_totales = 0
    /\ artefactos = ArtefactosVacios
    /\ pc = "idle"
    /\ max_reintentos = 0
    /\ expediente_actual = "None"
    /\ bitacora = << >>
    /\ proceso_interrumpido = FALSE
    /\ docs_pendientes = << >>
    /\ i = 0
    /\ intento = 0
    /\ error_actual = "None"
    /\ resultado = "None"
    /\ expediente_completo = FALSE
    /\ codigo_salida = 0
    /\ corrida = 0
    /\ bitacora_inicio = << >>
    /\ servicio_llamado = FALSE
    /\ escrituras_bitacora = 0
    /\ intentos_doc = 0
    /\ fallos_doc = 0
    /\ pausas_reintento = 0
    /\ base_doc = 0
    /\ pausas_documentos = 0
    /\ senal_en_doc = "None"
    /\ salida_previa = "ninguna"
    /\ sin_agregados = TRUE

\* --------------------------------------------------------- environment

\* The user drops a new file into the case folder between two processes.
AgregarDocumento(d) ==
    /\ pc = "idle"
    /\ d \notin documentos
    /\ documentos' = documentos \cup {d}
    /\ sin_agregados' = FALSE
    /\ UNCHANGED << bitacora_disco, resumen_disco, artefactos, pc,
                    max_reintentos, tokens_totales,
                    expediente_actual, bitacora, proceso_interrumpido,
                    docs_pendientes, i, intento, error_actual, resultado,
                    expediente_completo, codigo_salida, corrida,
                    bitacora_inicio, servicio_llamado, escrituras_bitacora,
                    intentos_doc, fallos_doc, pausas_reintento, base_doc,
                    pausas_documentos, senal_en_doc, salida_previa >>
    /\ UNCHANGED fueraDeBatch

\* The user deletes a file from the case folder between two processes.
QuitarDocumento(d) ==
    /\ pc = "idle"
    /\ d \in documentos
    /\ documentos' = documentos \ {d}
    /\ UNCHANGED << bitacora_disco, resumen_disco, artefactos, pc,
                    max_reintentos, tokens_totales,
                    expediente_actual, bitacora, proceso_interrumpido,
                    docs_pendientes, i, intento, error_actual, resultado,
                    expediente_completo, codigo_salida, corrida,
                    bitacora_inicio, servicio_llamado, escrituras_bitacora,
                    intentos_doc, fallos_doc, pausas_reintento, base_doc,
                    pausas_documentos, senal_en_doc, salida_previa,
                    sin_agregados >>
    /\ UNCHANGED fueraDeBatch

\* ------------------------------------------------------------ process

\* main(): parse --reintentos, build the analyzer (SCJNAnalyzer.__init__).
IniciarProceso(r) ==
    /\ pc = "idle"
    /\ corrida < MaxCorridas
    /\ corrida' = corrida + 1
    /\ max_reintentos' = r
    /\ tokens_totales' = 0
    /\ expediente_actual' = "None"
    /\ bitacora' = << >>
    /\ proceso_interrumpido' = FALSE
    /\ bitacora_inicio' = bitacora_disco
    /\ pc' = "inicio"
    /\ UNCHANGED << dirVars, docs_pendientes, i, intento, error_actual,
                    resultado, expediente_completo, codigo_salida,
                    servicio_llamado, escrituras_bitacora, docObs,
                    pausas_documentos, senal_en_doc, salida_previa,
                    sin_agregados >>
    /\ UNCHANGED fueraDeBatch

\* procesar_expediente_completo, lines 334-335.
ProcesarExpedienteInicio ==
    /\ pc = "inicio"
    /\ expediente_actual' = Expediente
    /\ pc' = "analizar"
    /\ UNCHANGED << dirVars, max_reintentos, tokens_totales, bitacora,
                    proceso_interrumpido,
                    docs_pendientes, i, intento, error_actual, resultado,
                    expediente_completo, codigo_salida, corrida,
                    bitacora_inicio, servicio_llamado, escrituras_bitacora,
                    docObs, pausas_documentos, senal_en_doc, salida_previa,
                    sin_agregados >>
    /\ UNCHANGED fueraDeBatch

SiemprePendientes(pendientes) == FALSE

\* "if not docs_pendientes" of line 345.
SinPendientes(pendientes) == pendientes = << >>

\* analizar_estado_expediente and the short-circuit of lines 345-347.
AnalizarEstadoExpediente ==
    /\ pc = "analizar"
    /\ LET documentos_disponibles == ListarDocumentosSoportados(documentos)
           bitacora_existente == CargarBitacoraExistente(bitacora_disco)
           pendientes == DocsPendientes(documentos_disponibles,
                                        bitacora_existente)
       IN  /\ bitacora' = IF bitacora_existente = << >>
                          THEN bitacora
                          ELSE bitacora_existente
           /\ tokens_totales' = IF bitacora_existente = << >>
                                THEN tokens_totales
                                ELSE TokensAcumulados(bitacora_existente)
           /\ docs_pendientes' = pendientes
           /\ pc' = IF SinPendientes(pendientes) THEN "verificar" ELSE "loop"
    /\ i' = 0
    /\ UNCHANGED << dirVars, max_reintentos, expediente_actual,
                    proceso_interrumpido, intento, error_actual, resultado,
                    expediente_completo, codigo_salida, corrida,
                    bitacora_inicio, servicio_llamado, escrituras_bitacora,
                    docObs, pausas_documentos, senal_en_doc, salida_previa,
                    sin_agregados >>
    /\ UNCHANGED fueraDeBatch

\* The document the loop is at.
Archivo == docs_pendientes[i + 1]

\* Head of "for i, archivo in enumerate(docs_pendientes)" with the
\* interrupted check, and entry into procesar_documento_con_timeout.
SiguienteDocumento ==
    /\ pc = "loop"
    /\ IF i >= Len(docs_pendientes) \/ proceso_interrumpido
       THEN /\ pc' = "guardar"
            /\ UNCHANGED << intento, resultado, docObs >>
       ELSE /\ intento' = 0
            /\ base_doc' = Len(bitacora)
            /\ fallos_doc' = 0
            /\ pausas_reintento' = 0
            /\ IF EnRango(0, max_reintentos)
               THEN /\ pc' = "extraer"
                    /\ intentos_doc' = 1
                    /\ UNCHANGED resultado
               ELSE /\ pc' = "post_doc"
                    /\ intentos_doc' = 0
                    /\ resultado' = "None"
    /\ UNCHANGED << dirVars, max_reintentos, tokens_totales,
                    expediente_actual, bitacora,
                    proceso_interrumpido, docs_pendientes, i, error_actual,
                    expediente_completo, codigo_salida, corrida,
                    bitacora_inicio, servicio_llamado, escrituras_bitacora,
                    pausas_documentos, senal_en_doc, salida_previa,
                    sin_agregados >>
    /\ UNCHANGED fueraDeBatch


\* Variables no step of one attempt touches.
fueraDelIntento == << documentos, max_reintentos, tokens_totales,
                      expediente_actual,
                      docs_pendientes, i, expediente_completo, codigo_salida,
                      corrida, bitacora_inicio, pausas_documentos,
                      senal_en_doc, salida_previa, sin_agregados >>

\* processor.extraer_contenido returns the content (lines 180-199).
ExtraerContenido ==
    /\ pc = "extraer"
    /\ pc' = "llamar"
    /\ UNCHANGED << fueraDelIntento, bitacora_disco, resumen_disco,
                    artefactos, bitacora,
                    proceso_interrumpido, intento, error_actual, resultado,
                    servicio_llamado, escrituras_bitacora, docObs >>
    /\ UNCHANGED fueraDeBatch

\* stat(), the hash or the format reader raises.
ExtraerFalla ==
    /\ pc = "extraer"
    /\ error_actual' = "extraccion"
    /\ pc' = "except"
    /\ UNCHANGED << fueraDelIntento, bitacora_disco, resumen_disco,
                    artefactos, bitacora,
                    proceso_interrumpido, intento, resultado,
                    servicio_llamado, escrituras_bitacora, docObs >>
    /\ UNCHANGED fueraDeBatch

\* TXTProcessor: the read with the detected encoding raises and the
\* reader enters its utf-8 fallback (txt_processor.py lines 32-36).
ExtraerTxtFallback ==
    /\ pc = "extraer"
    /\ Extension(Archivo) = ".txt"
    /\ pc' = "fallback"
    /\ UNCHANGED << fueraDelIntento, bitacora_disco, resumen_disco,
                    artefactos, bitacora,
                    proceso_interrumpido, intento, error_actual, resultado,
                    servicio_llamado, escrituras_bitacora, docObs >>
    /\ UNCHANGED fueraDeBatch

\* The utf-8 fallback read returns the content.
FallbackContenido ==
    /\ pc = "fallback"
    /\ pc' = "llamar"
    /\ UNCHANGED << fueraDelIntento, bitacora_disco, resumen_disco,
                    artefactos, bitacora,
                    proceso_interrumpido, intento, error_actual, resultado,
                    servicio_llamado, escrituras_bitacora, docObs >>
    /\ UNCHANGED fueraDeBatch

\* The utf-8 fallback read raises; the bare except re-raises an Exception.
FallbackFalla ==
    /\ pc = "fallback"
    /\ error_actual' = "extraccion"
    /\ pc' = "except"
    /\ UNCHANGED << fueraDelIntento, bitacora_disco, resumen_disco,
                    artefactos, bitacora,
                    proceso_interrumpido, intento, resultado,
                    servicio_llamado, escrituras_bitacora, docObs >>
    /\ UNCHANGED fueraDeBatch

\* SIGINT during the utf-8 fallback read: _signal_handler runs (flag, save,
\* sys.exit), but the SystemExit is caught by the bare "except:" of
\* txt_processor.py line 38 and replaced by an Exception; the process goes on.
SenalEnFallback ==
    /\ pc = "fallback"
    /\ proceso_interrumpido' = TRUE
    /\ bitacora_disco' = DiscoTrasHandler
    /\ resumen_disco' = ResumenTrasHandler
    /\ escrituras_bitacora' = EscriturasTrasHandler
    /\ error_actual' = "extraccion"
    /\ pc' = "except"
    /\ UNCHANGED << fueraDelIntento, artefactos, bitacora, intento, resultado,
                    servicio_llamado, docObs >>
    /\ UNCHANGED fueraDeBatch

EscribirSinValidar(valido, existentes, archivo) ==
    [existentes EXCEPT ![Stem(archivo)] = archivo]

\* Lines 273-284: SCJNDocumentoMapeado(**resultado_json) raises on an
\* invalid output, before <stem>_mapeado.json is opened for writing.
ArtefactosTrasValidar(valido, existentes, archivo) ==
    IF valido
    THEN [existentes EXCEPT ![Stem(archivo)] = archivo]
    ELSE existentes

\* gemini_client.procesar_documento returns an output that passes
\* SCJNDocumentoMapeado validation; the artifact is written (lines 202-284).
LlamarServicioValido ==
    /\ pc = "llamar"
    /\ servicio_llamado' = TRUE
    /\ artefactos' = ArtefactosTrasValidar(TRUE, artefactos, Archivo)
    /\ pc' = "registrar"
    /\ UNCHANGED << fueraDelIntento, bitacora_disco, resumen_disco, bitacora,
                    proceso_interrumpido, intento, error_actual, resultado,
                    escrituras_bitacora, docObs >>
    /\ UNCHANGED fueraDeBatch

\* gemini_client.procesar_documento raises (service error, unparsable text).
LlamarServicioFalla ==
    /\ pc = "llamar"
    /\ servicio_llamado' = TRUE
    /\ error_actual' = "servicio"
    /\ pc' = "except"
    /\ UNCHANGED << fueraDelIntento, bitacora_disco, resumen_disco,
                    artefactos, bitacora,
                    proceso_interrumpido, intento, resultado,
                    escrituras_bitacora, docObs >>
    /\ UNCHANGED fueraDeBatch

\* The service answers, SCJNDocumentoMapeado(**resultado_json) raises.
LlamarServicioInvalido ==
    /\ pc = "llamar"
    /\ servicio_llamado' = TRUE
    /\ error_actual' = "validacion"
    /\ artefactos' = ArtefactosTrasValidar(FALSE, artefactos, Archivo)
    /\ pc' = "except"
    /\ UNCHANGED << fueraDelIntento, bitacora_disco, resumen_disco, bitacora,
                    proceso_interrumpido, intento, resultado,
                    escrituras_bitacora, docObs >>
    /\ UNCHANGED fueraDeBatch

\* Lines 286-301: append the success entry and return the JSON.
RegistrarExito ==
    /\ pc = "registrar"
    /\ bitacora' = Append(bitacora,
                          BitacoraEntry(corrida, Archivo, "success", "None"))
    /\ pc' = "contar"
    /\ UNCHANGED << fueraDelIntento, bitacora_disco, resumen_disco, artefactos,
                    proceso_interrumpido, intento, error_actual, resultado,
                    servicio_llamado, escrituras_bitacora, docObs >>
    /\ UNCHANGED fueraDeBatch

\* Lines 297-301: the counters are updated and the function returns.
ContarTokens ==
    /\ pc = "contar"
    /\ tokens_totales' = tokens_totales + TokensDe(Archivo)
    /\ resultado' = "json"
    /\ pc' = "post_doc"
    /\ UNCHANGED << documentos, max_reintentos, expediente_actual,
                    docs_pendientes, i, expediente_completo, codigo_salida,
                    corrida, bitacora_inicio, pausas_documentos, senal_en_doc,
                    salida_previa, sin_agregados >>
    /\ UNCHANGED << bitacora_disco, resumen_disco, artefactos, bitacora,
                    proceso_interrumpido, intento, error_actual,
                    servicio_llamado, escrituras_bitacora, docObs >>
    /\ UNCHANGED fueraDeBatch

\* The except branch of the retry loop (lines 303-325): sleep and go to the
\* next index of range(max_reintentos + 1), or record the terminal error.
\* When the range is exhausted after a sleep the function falls off its
\* end and returns None.
ManejarExcepcion ==
    /\ pc = "except"
    /\ fallos_doc' = fallos_doc + 1
    /\ IF QuedanReintentos(intento, max_reintentos)
       THEN /\ pausas_reintento' = pausas_reintento + 1
            /\ intento' = intento + 1
            /\ IF EnRango(intento + 1, max_reintentos)
               THEN /\ pc' = "extraer"
                    /\ intentos_doc' = intentos_doc + 1
                    /\ UNCHANGED resultado
               ELSE /\ pc' = "post_doc"
                    /\ resultado' = "None"
                    /\ UNCHANGED intentos_doc
            /\ UNCHANGED bitacora
       ELSE /\ bitacora' = Append(bitacora,
                                  BitacoraEntry(corrida, Archivo, "error",
                                                error_actual))
            /\ resultado' = "None"
            /\ pc' = "post_doc"
            /\ UNCHANGED << intento, intentos_doc, pausas_reintento >>
    /\ UNCHANGED << fueraDelIntento, bitacora_disco, resumen_disco, artefactos,
                    proceso_interrumpido, error_actual, servicio_llamado,
                    escrituras_bitacora, base_doc >>
    /\ UNCHANGED fueraDeBatch

PausaSiempre(k, n, interrumpido) == TRUE

\* "if i < len(docs_pendientes) - 1 and not self.proceso_interrumpido"
HayPausa(k, n, interrumpido) == k < n - 1 /\ ~interrumpido

\* Lines 366-385: the extractor call has returned (its locals are gone);
\* counters, progress bar, pause between documents.
DespuesDeDocumento ==
    /\ pc = "post_doc"
    /\ pausas_documentos' =
          IF HayPausa(i, Len(docs_pendientes), proceso_interrumpido)
          THEN pausas_documentos + 1
          ELSE pausas_documentos
    /\ i' = i + 1
    /\ intento' = 0
    /\ error_actual' = "None"
    /\ resultado' = "None"
    /\ intentos_doc' = 0
    /\ fallos_doc' = 0
    /\ pausas_reintento' = 0
    /\ base_doc' = 0
    /\ pc' = "loop"
    /\ UNCHANGED << dirVars, max_reintentos, tokens_totales,
                    expediente_actual, bitacora,
                    proceso_interrumpido, docs_pendientes,
                    expediente_completo, codigo_salida, corrida,
                    bitacora_inicio, servicio_llamado, escrituras_bitacora,
                    senal_en_doc, salida_previa, sin_agregados >>
    /\ UNCHANGED fueraDeBatch

\* Lines 387-391: guardar_bitacora after the loop, return False if the
\* interrupted flag is set.
GuardarTrasLoop ==
    /\ pc = "guardar"
    /\ bitacora_disco' = GuardarBitacora(bitacora)
    /\ resumen_disco' = ResumenExpediente(bitacora, documentos, tokens_totales)
    /\ escrituras_bitacora' = escrituras_bitacora + 1
    /\ IF proceso_interrumpido
       THEN /\ expediente_completo' = FALSE
            /\ pc' = "retorno"
       ELSE /\ pc' = "verificar"
            /\ UNCHANGED expediente_completo
    /\ UNCHANGED << documentos, artefactos, max_reintentos, tokens_totales,
                    expediente_actual,
                    bitacora, proceso_interrumpido, docs_pendientes, i,
                    intento, error_actual, resultado, codigo_salida, corrida,
                    bitacora_inicio, servicio_llamado, docObs,
                    pausas_documentos, senal_en_doc, salida_previa,
                    sin_agregados >>
    /\ UNCHANGED fueraDeBatch

\* return self._verificar_expediente_completo(carpeta_expediente)
VerificarCompleto ==
    /\ pc = "verificar"
    /\ expediente_completo' = VerificarExpedienteCompleto(documentos, bitacora)
    /\ pc' = "retorno"
    /\ UNCHANGED << dirVars, max_reintentos, tokens_totales,
                    expediente_actual, bitacora,
                    proceso_interrumpido, docs_pendientes, i, intento,
                    error_actual, resultado, codigo_salida, corrida,
                    bitacora_inicio, servicio_llamado, escrituras_bitacora,
                    docObs, pausas_documentos, senal_en_doc, salida_previa,
                    sin_agregados >>
    /\ UNCHANGED fueraDeBatch

\* main() runs to its end: exit status 0.
TerminarProceso ==
    /\ pc = "retorno"
    /\ codigo_salida' = 0
    /\ salida_previa' = "normal"
    /\ pc' = "terminado"
    /\ UNCHANGED << dirVars, max_reintentos, tokens_totales,
                    expediente_actual, bitacora,
                    proceso_interrumpido, docs_pendientes, i, intento,
                    error_actual, resultado, expediente_completo, corrida,
                    bitacora_inicio, servicio_llamado, escrituras_bitacora,
                    docObs, pausas_documentos, senal_en_doc, sin_agregados >>
    /\ UNCHANGED fueraDeBatch

\* Positions at which one document is inside procesar_documento_con_timeout.
EnDocumento ==
    pc \in {"extraer", "fallback", "llamar", "registrar", "contar", "except"}

\* SIGINT anywhere else: _signal_handler sets the flag, saves the log if
\* there is one, and sys.exit(0) raises SystemExit at the interrupted
\* instruction.  "except Exception" does not catch it: the process ends.
SignalHandler ==
    /\ pc \notin {"idle", "terminado", "fallback"}
    /\ proceso_interrumpido' = TRUE
    /\ bitacora_disco' = DiscoTrasHandler
    /\ resumen_disco' = ResumenTrasHandler
    /\ escrituras_bitacora' = EscriturasTrasHandler
    /\ senal_en_doc' = IF EnDocumento THEN Archivo ELSE "None"
    /\ codigo_salida' = 0
    /\ salida_previa' = "senal"
    /\ pc' = "terminado"
    /\ UNCHANGED << documentos, artefactos, max_reintentos, tokens_totales,
                    expediente_actual,
                    bitacora, docs_pendientes, i, intento, error_actual,
                    resultado, expediente_completo, corrida, bitacora_inicio,
                    servicio_llamado, docObs, pausas_documentos,
                    sin_agregados >>
    /\ UNCHANGED fueraDeBatch

\* The operating system releases the memory of the ended process.
LiberarProceso ==
    /\ pc = "terminado"
    /\ pc' = "idle"
    /\ max_reintentos' = 0
    /\ tokens_totales' = 0
    /\ expediente_actual' = "None"
    /\ bitacora' = << >>
    /\ proceso_interrumpido' = FALSE
    /\ docs_pendientes' = << >>
    /\ i' = 0
    /\ intento' = 0
    /\ error_actual' = "None"
    /\ resultado' = "None"
    /\ expediente_completo' = FALSE
    /\ bitacora_inicio' = << >>
    /\ servicio_llamado' = FALSE
    /\ escrituras_bitacora' = 0
    /\ intentos_doc' = 0
    /\ fallos_doc' = 0
    /\ pausas_reintento' = 0
    /\ base_doc' = 0
    /\ pausas_documentos' = 0
    /\ senal_en_doc' = "None"
    /\ sin_agregados' = TRUE
    /\ UNCHANGED << dirVars, codigo_salida, corrida, salida_previa >>
    /\ UNCHANGED fueraDeBatch

Next ==
    \/ \E d \in DocNames : AgregarDocumento(d)
    \/ \E d \in DocNames : QuitarDocumento(d)
    \/ \E r \in ValoresReintentos : IniciarProceso(r)
    \/ ProcesarExpedienteInicio
    \/ AnalizarEstadoExpediente
    \/ SiguienteDocumento
    \/ ExtraerContenido
    \/ ExtraerFalla
    \/ ExtraerTxtFallback
    \/ FallbackContenido
    \/ FallbackFalla
    \/ SenalEnFallback
    \/ LlamarServicioValido
    \/ LlamarServicioFalla
    \/ LlamarServicioInvalido
    \/ RegistrarExito
    \/ ContarTokens
    \/ ManejarExcepcion
    \/ DespuesDeDocumento
    \/ GuardarTrasLoop
    \/ VerificarCompleto
    \/ TerminarProceso
    \/ SignalHandler
    \/ LiberarProceso

Spec == Init /\ [][Next]_vars

\* ------------------------------------------------ repeated, fair runs

\* The case is run again and again over a folder nobody changes and no
\* signal arrives.  Extraction may fail in every run but the last one the
\* bound allows, in which every attempt succeeds and the retry count lets
\* the extractor attempt at all.
FallaPosible == corrida < MaxCorridas

Reinvocar(r) ==
    /\ IniciarProceso(r)
    /\ corrida + 1 = MaxCorridas => r >= 0

ExtraerFallaTemprana == FallaPosible /\ ExtraerFalla

FallbackFallaTemprana == FallaPosible /\ FallbackFalla

ServicioFallaTemprana == FallaPosible /\ LlamarServicioFalla

ServicioInvalidoTemprano == FallaPosible /\ LlamarServicioInvalido

NextConvergencia ==
    \/ \E r \in ValoresReintentos : Reinvocar(r)
    \/ ProcesarExpedienteInicio
    \/ AnalizarEstadoExpediente
    \/ SiguienteDocumento
    \/ ExtraerContenido
    \/ ExtraerFallaTemprana
    \/ ExtraerTxtFallback
    \/ FallbackContenido
    \/ FallbackFallaTemprana
    \/ LlamarServicioValido
    \/ ServicioFallaTemprana
    \/ ServicioInvalidoTemprano
    \/ RegistrarExito
    \/ ContarTokens
    \/ ManejarExcepcion
    \/ DespuesDeDocumento
    \/ GuardarTrasLoop
    \/ VerificarCompleto
    \/ TerminarProceso
    \/ LiberarProceso

\* The process is a single thread that always takes its next step, and
\* the operator starts the next run when one has ended.
SpecConvergencia ==
    Init /\ [][NextConvergencia]_vars /\ WF_vars(NextConvergencia)


(***************************************************************************)
(* Properties of the batch coordinator, the retrying extractor and the     *)
(* audit log.                                                              *)
(***************************************************************************)

\* Positions of a process at which docs_pendientes has been computed.
Analizado ==
    pc \in {"loop", "extraer", "fallback", "llamar", "registrar", "except",
            "post_doc", "guardar", "verificar", "retorno"}

\* Document d has an entry with outcome success in a persisted log.
ExitoPersistido(disco, d) ==
    \E k \in DOMAIN disco :
        disco[k].documento = d /\ disco[k].status = "success"

\* Document d has an entry with outcome error in a persisted log.
ErrorPersistido(disco, d) ==
    \E k \in DOMAIN disco :
        disco[k].documento = d /\ disco[k].status = "error"

EsPendiente(d) == \E k \in DOMAIN docs_pendientes : docs_pendientes[k] = d

\* s is an initial segment of t.
IsPrefix(s, t) ==
    /\ Len(s) <= Len(t)
    /\ \A k \in DOMAIN s : s[k] = t[k]

\* C1: at the start of a batch run the documents to process are exactly
\* the available documents with no success entry in the persisted log; a
\* document with only error entries is pending, one with a success entry
\* never is.
C1_PendientesExactos ==
    Analizado =>
        \A d \in DocNames :
            EsPendiente(d) <=>
                (d \in documentos /\ ~ExitoPersistido(bitacora_inicio, d))

C1_Witness ==
    /\ Analizado
    /\ \E d \in documentos :
          /\ ErrorPersistido(bitacora_inicio, d)
          /\ ~ExitoPersistido(bitacora_inicio, d)
          /\ EsPendiente(d)
    /\ \E d \in documentos :
          /\ ExitoPersistido(bitacora_inicio, d)
          /\ ~EsPendiente(d)

\* Every available document has some entry in the log the run started from.
TodosConEntradaAlInicio ==
    \A d \in documentos :
        \E k \in DOMAIN bitacora_inicio : bitacora_inicio[k].documento = d

\* Every available document has a success entry in the log the run
\* started from.
TodosExitososAlInicio ==
    \A d \in documentos : ExitoPersistido(bitacora_inicio, d)

\* C2 as stated: a second run after a first one, with no document added in
\* between, leaves the persisted log unchanged and makes no service call
\* (taken here on the first runs that recorded an outcome for every
\* available document).
C2_Original ==
    (/\ pc = "retorno"
     /\ corrida >= 2
     /\ sin_agregados
     /\ salida_previa = "normal"
     /\ TodosConEntradaAlInicio)
        => (bitacora_disco = bitacora_inicio /\ ~servicio_llamado)

\* C2 amended: when the first run left a success entry for every available
\* document, a second run with no document added in between leaves the
\* entries of the persisted log unchanged and makes no service call, at
\* every point of the second run and however it ends.
C2_ResumeIdempotence ==
    (/\ pc # "idle"
     /\ corrida >= 2
     /\ sin_agregados
     /\ TodosExitososAlInicio)
        => (bitacora_disco = bitacora_inicio /\ ~servicio_llamado)

C2_Witness ==
    /\ pc = "retorno"
    /\ corrida = 2
    /\ sin_agregados
    /\ documentos = DocNames
    /\ TodosExitososAlInicio
    /\ expediente_completo

\* C3: the persisted log is append-only: every version written extends the
\* previous one, entry by entry and in place.
C3_AppendOnly == [][IsPrefix(bitacora_disco, bitacora_disco')]_vars

C3_Witness ==
    /\ corrida = 2
    /\ pc = "verificar"
    /\ Len(bitacora_inicio) > 0
    /\ Len(bitacora_disco) > Len(bitacora_inicio)
    /\ IsPrefix(bitacora_inicio, bitacora_disco)

\* C4: one extractor call makes at most max_reintentos + 1 attempts, stops
\* at the first success, and sleeps once after each failed attempt that is
\* followed by another attempt, never after the last attempt or a success.
C4_ReintentosAcotados ==
    /\ intentos_doc <= max_reintentos + 1
    /\ pc \in {"extraer", "fallback", "llamar", "registrar"} =>
          /\ fallos_doc = intentos_doc - 1
          /\ pausas_reintento = fallos_doc
    /\ pc = "except" =>
          /\ fallos_doc = intentos_doc - 1
          /\ pausas_reintento = intentos_doc - 1
    /\ (pc = "post_doc" /\ resultado = "json") =>
          /\ fallos_doc = intentos_doc - 1
          /\ pausas_reintento = fallos_doc
    /\ (pc = "post_doc" /\ resultado = "None") =>
          /\ fallos_doc = intentos_doc
          /\ intentos_doc = (IF max_reintentos >= 0
                             THEN max_reintentos + 1 ELSE 0)
          /\ pausas_reintento = (IF intentos_doc = 0
                                 THEN 0 ELSE intentos_doc - 1)

C4_Witness ==
    /\ pc = "post_doc"
    /\ max_reintentos = 1
    /\ resultado = "json"
    /\ intentos_doc = 2
    /\ fallos_doc = 1
    /\ pausas_reintento = 1

\* C5 as stated: every extractor call, for every configured retry count,
\* appends exactly one entry for its document: success if an attempt
\* succeeded, otherwise error with the detail of the last attempt.
C5_UnaEntradaPorLlamada ==
    pc = "post_doc" =>
        /\ Len(bitacora) = base_doc + 1
        /\ bitacora[Len(bitacora)].documento = Archivo
        /\ (resultado = "json" =>
               bitacora[Len(bitacora)].status = "success")
        /\ (resultado = "None" =>
               /\ bitacora[Len(bitacora)].status = "error"
               /\ bitacora[Len(bitacora)].error_detalle = error_actual)

\* C6: after an interruption signal, when the process has stopped, every
\* entry held in memory is in the persisted log at its position, the exit
\* status is 0, and the next process takes as pending exactly the
\* available documents without a success entry.
C6_InterrupcionGuarda ==
    /\ (pc = "terminado" /\ proceso_interrumpido) =>
          /\ codigo_salida = 0
          /\ IsPrefix(BitacoraDict(bitacora), bitacora_disco)
    /\ (Analizado /\ salida_previa = "senal") =>
          \A d \in DocNames :
              EsPendiente(d) <=>
                  (d \in documentos /\ ~ExitoPersistido(bitacora_inicio, d))

C6_Witness ==
    /\ pc = "terminado"
    /\ salida_previa = "senal"
    /\ bitacora_inicio # << >>
    /\ Len(bitacora) > Len(bitacora_inicio)
    /\ escrituras_bitacora = 1
    /\ bitacora_disco = BitacoraDict(bitacora)

\* C7 as stated: a signal that arrives while a document is being processed
\* does not abort it; the document's entry is recorded before the run stops.
C7_CancelacionCooperativa ==
    (pc = "terminado" /\ senal_en_doc # "None") =>
        \E k \in DOMAIN bitacora :
            /\ k > base_doc
            /\ bitacora[k].documento = senal_en_doc

\* C8 as stated: in an uninterrupted run every document pending at the
\* start gets exactly one new entry, whatever happened to the others.
C8_FalloNoFatal ==
    (pc = "retorno" /\ ~proceso_interrumpido) =>
        /\ Len(bitacora) = Len(bitacora_inicio) + Len(docs_pendientes)
        /\ \A k \in DOMAIN docs_pendientes :
              bitacora[Len(bitacora_inicio) + k].documento = docs_pendientes[k]

\* C9: the completeness check is true exactly when every document now in
\* the case directory has a success entry in the current log; error
\* entries do not count, and an empty directory is complete.
C9_CompletoSiiSuperconjunto ==
    (pc = "retorno" /\ ~proceso_interrumpido) =>
        (expediente_completo <=>
            \A d \in documentos :
                \E k \in DOMAIN bitacora :
                    /\ bitacora[k].documento = d
                    /\ bitacora[k].status = "success")

C9_Witness ==
    /\ pc = "retorno"
    /\ ~proceso_interrumpido
    /\ expediente_completo
    /\ documentos # {}
    /\ \E k \in DOMAIN bitacora : bitacora[k].status = "error"

\* The log without its k-th entry.
SinEntrada(entries, k) ==
    [j \in 1 .. (Len(entries) - 1) |->
        IF j < k THEN entries[j] ELSE entries[j + 1]]

\* The log without the success entries of document d.
SinExitoDe(entries, d) ==
    SelectSeq(entries, LAMBDA e : ~(e.documento = d /\ e.status = "success"))

SuperconjuntoDeDisponibles(entries) ==
    \A d \in documentos :
        \E k \in DOMAIN entries :
            entries[k].documento = d /\ entries[k].status = "success"

\* C10 as stated: when the success set covers the available documents the
\* case is complete, and removing any one success entry makes it not
\* complete.
C10_Original ==
    (pc = "verificar" /\ SuperconjuntoDeDisponibles(bitacora)) =>
        /\ VerificarExpedienteCompleto(documentos, bitacora)
        /\ \A k \in DOMAIN bitacora :
              bitacora[k].status = "success" =>
                  ~VerificarExpedienteCompleto(documentos,
                                               SinEntrada(bitacora, k))

\* C10 amended: when the success set covers the available documents the
\* case is complete, and removing the success entries of any one document
\* that is now in the case directory makes it not complete.
C10_Monotonia ==
    (pc = "verificar" /\ SuperconjuntoDeDisponibles(bitacora)) =>
        /\ VerificarExpedienteCompleto(documentos, bitacora)
        /\ \A d \in documentos :
              ~VerificarExpedienteCompleto(documentos,
                                           SinExitoDe(bitacora, d))

C10_Witness ==
    /\ pc = "verificar"
    /\ SuperconjuntoDeDisponibles(bitacora)
    /\ documentos # {}
    /\ \E k \in DOMAIN bitacora :
          bitacora[k].status = "success" /\ bitacora[k].documento \notin documentos


(***************************************************************************)
(* Part 2: the chronology consolidator                                     *)
(* (proyecto_sentencia/orquestador.py, crear_contexto_del_caso_robusto)    *)
(* as ejecutar_generacion_proyecto calls it for --modo contexto.           *)
(*                                                                         *)
(* A per-document artifact is a JSON object; of it the consolidator looks  *)
(* at identificacion_basica.etapa_procesal_resuelta, .fecha_resolucion     *)
(* and .expedientes_principales.  The artifact of file f carries           *)
(* documento = f, which tells the milestones apart.                        *)
(***************************************************************************)

\* ---------------------------------------------------------------- bounds
MaxArtefactos == 2          \* *_mapeado.json files in jsons/
MaxConsolidaciones == 2     \* calls of the consolidator over the case

\* ------------------------------------------------------------- universe
\* Docket identifiers, one per artifact file.
Dockets == <<"11/2023", "22/2023", "33/2023", "44/2023">>

\* What the keys of identificacion_basica may hold.  "AUSENTE" stands for
\* a key that is not in the object.  "Otra" is the escape member of
\* EtapaProcesalEnum; "01/03/2023" is a date strptime('%Y-%m-%d') rejects.
EtapasPosibles == {"Demanda de Amparo", "Recurso de Revisión", "Otra",
                   "AUSENTE"}

FechasBienFormadas == {"2023-03-01", "2023-05-01"}

\* Shapes of a *_mapeado.json file.  legible = FALSE: the file cannot be
\* opened or is not JSON.  bloque = FALSE: no identificacion_basica key.
Forma(legible, bloque, etapa, fecha, exp) ==
    [legible |-> legible, bloque |-> bloque, etapa |-> etapa, fecha |-> fecha,
     exp |-> exp]

Formas ==
    {Forma(TRUE, TRUE, e, f, "lista") :
        e \in EtapasPosibles, f \in FechasBienFormadas}
    \cup {Forma(TRUE, TRUE, "Demanda de Amparo", "01/03/2023", "lista"),
          Forma(TRUE, TRUE, "Recurso de Revisión", "AUSENTE", "lista"),
          Forma(TRUE, TRUE, "Recurso de Revisión", "2023-05-01", "vacia"),
          Forma(TRUE, TRUE, "Demanda de Amparo", "2023-03-01", "ausente"),
          Forma(TRUE, FALSE, "AUSENTE", "AUSENTE", "ausente"),
          Forma(FALSE, FALSE, "AUSENTE", "AUSENTE", "ausente")}

\* The object json.load gives for file f of shape forma.
Mapeado(f, forma) ==
    [legible |-> forma.legible,
     documento |-> f,
     bloque |-> forma.bloque,
     etapa_procesal_resuelta |-> forma.etapa,
     fecha_resolucion |-> forma.fecha,
     con_expedientes |-> forma.exp # "ausente",
     expedientes_principales |->
        IF forma.exp = "lista" THEN << Dockets[f], "99/2020" >> ELSE << >>]

\* ------------------------------------------------------ clave_ordenamiento

ORDEN_ETAPAS ==
    ("Juicio de Origen" :> 1) @@ ("Recurso de Apelación" :> 2)
    @@ ("Demanda de Amparo" :> 3) @@ ("Sentencia de Amparo Directo" :> 4)
    @@ ("Recurso de Revisión" :> 5)
    @@ ("Acuerdo de Admisión de Revisión" :> 6) @@ ("Avocamiento" :> 7)

\* documento.get('identificacion_basica', {}).get('etapa_procesal_resuelta',
\* 'ETAPA_DESCONOCIDA')
EtapaDe(documento) ==
    IF documento.bloque /\ documento.etapa_procesal_resuelta # "AUSENTE"
    THEN documento.etapa_procesal_resuelta
    ELSE "ETAPA_DESCONOCIDA"

\* documento.get('identificacion_basica', {}).get('fecha_resolucion',
\* '1900-01-01')
FechaStrDe(documento) ==
    IF documento.bloque /\ documento.fecha_resolucion # "AUSENTE"
    THEN documento.fecha_resolucion
    ELSE "1900-01-01"

\* datetime.strptime(fecha_str, '%Y-%m-%d') accepts the string.
FechaValida(fecha_str) ==
    fecha_str \in {"1900-01-01", "2023-03-01", "2023-05-01"}

\* datetime.strptime(fecha_str, '%Y-%m-%d').date(), as a day number.
Strptime(fecha_str) ==
    CASE fecha_str = "1900-01-01" -> 0
      [] fecha_str = "2023-03-01" -> 44984
      [] fecha_str = "2023-05-01" -> 45045

OrdenDesconocidaPrimero(etapa) ==
    IF etapa \in DOMAIN ORDEN_ETAPAS THEN ORDEN_ETAPAS[etapa] ELSE 0

\* orden = ORDEN_ETAPAS.get(etapa); 99 when the stage is not in the table.
Orden(etapa) ==
    IF etapa \in DOMAIN ORDEN_ETAPAS THEN ORDEN_ETAPAS[etapa] ELSE 99

\* The key function raises (ValueError of strptime) for this milestone.
ClaveFalla(documento) == ~FechaValida(FechaStrDe(documento))

clave_ordenamiento(documento) ==
    << Orden(EtapaDe(documento)), Strptime(FechaStrDe(documento)) >>

TuplaMenorPorFecha(a, b) ==
    a[2] < b[2] \/ (a[2] = b[2] /\ a[1] < b[1])

\* a < b on Python tuples (orden, fecha).
TuplaMenor(a, b) ==
    a[1] < b[1] \/ (a[1] = b[1] /\ a[2] < b[2])

\* list.sort is stable: x goes after every element whose key is not
\* greater than its own.
RECURSIVE InsertarEstable(_, _)
InsertarEstable(lista, x) ==
    IF lista = << >>
    THEN << x >>
    ELSE LET ultimo == lista[Len(lista)]
             resto == SubSeq(lista, 1, Len(lista) - 1)
         IN  IF TuplaMenor(clave_ordenamiento(x), clave_ordenamiento(ultimo))
             THEN Append(InsertarEstable(resto, x), ultimo)
             ELSE Append(lista, x)

SinOrdenar(lista) == lista

\* hitos_procesales.sort(key=clave_ordenamiento)
RECURSIVE Ordenar(_)
Ordenar(lista) ==
    IF lista = << >>
    THEN << >>
    ELSE InsertarEstable(Ordenar(SubSeq(lista, 1, Len(lista) - 1)),
                         lista[Len(lista)])

\* hitos_procesales[-1]...get('expedientes_principales', [...])[0] raises
\* IndexError: the last milestone has an empty docket list.
ExpedienteFalla(hitos) ==
    /\ hitos # << >>
    /\ hitos[Len(hitos)].bloque
    /\ hitos[Len(hitos)].con_expedientes
    /\ hitos[Len(hitos)].expedientes_principales = << >>

ExpedienteDelPrimero(hitos) ==
    IF hitos = << >>
    THEN "No identificado"
    ELSE IF /\ hitos[1].bloque
            /\ hitos[1].con_expedientes
            /\ hitos[1].expedientes_principales # << >>
         THEN hitos[1].expedientes_principales[1]
         ELSE "No identificado"

\* Lines 50-52.
ExpedientePrincipal(hitos) ==
    IF hitos = << >>
    THEN "No identificado"
    ELSE LET ultimo == hitos[Len(hitos)]
         IN  IF ultimo.bloque /\ ultimo.con_expedientes
             THEN ultimo.expedientes_principales[1]
             ELSE "No identificado"

AbortarTrasError(k, n) == n + 1

\* "continue" of line 33: the loop goes on with the next file.
ContinuarTrasError(k, n) == k + 1

ContextoAcumulado(previo, principal, hitos) ==
    [existe |-> TRUE, expediente_principal |-> principal,
     hitos_procesales |-> previo.hitos_procesales \o hitos]

\* contexto_final (lines 54-61) as open(..., 'w') leaves it in the file;
\* fecha_orquestacion is left out.
ContextoFinal(previo, principal, hitos) ==
    [existe |-> TRUE, expediente_principal |-> principal,
     hitos_procesales |-> hitos]

\* What a consolidation step leaves alone.
fueraDeConsolidacion == << batchVars, secVars, citaVars, mainVars >>

\* ---------------------------------------------------------------- Init

\* The jsons/ folder holds up to MaxArtefactos files of any shape; glob
\* lists them by name.
InitConsolidacion ==
    /\ BatchInactivo
    /\ SeccionesInactivo
    /\ \E n \in 0 .. MaxArtefactos :
          /\ archivos_json = [k \in 1 .. n |-> k]
          /\ \E forma \in [1 .. n -> Formas] :
                contenido_archivo = [f \in 1 .. n |-> Mapeado(f, forma[f])]
    /\ contexto_disco = ContextoNinguno
    /\ ConsolidadorEnReposo
    /\ corridas_c = 0
    /\ contexto_previo = ContextoNinguno
    /\ entrada_previa = << >>
    /\ CitasInactivo
    /\ MainInactivo

\* --------------------------------------------------------- environment

\* A *_mapeado.json file is deleted from jsons/ between two calls.
QuitarArtefacto(k) ==
    /\ pc_c = "idle"
    /\ k \in DOMAIN archivos_json
    /\ archivos_json' = SubSeq(archivos_json, 1, k - 1)
                        \o SubSeq(archivos_json, k + 1, Len(archivos_json))
    /\ UNCHANGED << contenido_archivo, contexto_disco, pc_c, idx_c,
                    hitos_procesales, expediente_principal, corridas_c,
                    contexto_previo, entrada_previa >>
    /\ UNCHANGED fueraDeConsolidacion

\* ------------------------------------------------------------ the call

\* ejecutar_generacion_proyecto, lines 522-525: no mapped artifact, the
\* consolidator is not called.
SinArchivosMapeados ==
    /\ pc_c = "idle"
    /\ corridas_c < MaxConsolidaciones
    /\ archivos_json = << >>
    /\ corridas_c' = corridas_c + 1
    /\ contexto_previo' = ContextoNinguno
    /\ entrada_previa' = archivos_json
    /\ UNCHANGED << archivos_json, contenido_archivo, contexto_disco, pc_c,
                    idx_c, hitos_procesales, expediente_principal >>
    /\ UNCHANGED fueraDeConsolidacion

\* ejecutar_generacion_proyecto, lines 531-535, and line 25.
IniciarConsolidacion ==
    /\ pc_c = "idle"
    /\ corridas_c < MaxConsolidaciones
    /\ archivos_json # << >>
    /\ corridas_c' = corridas_c + 1
    /\ hitos_procesales' = << >>
    /\ idx_c' = 1
    /\ pc_c' = "leer"
    /\ UNCHANGED << archivos_json, contenido_archivo, contexto_disco,
                    expediente_principal, contexto_previo, entrada_previa >>
    /\ UNCHANGED fueraDeConsolidacion

\* Lines 26-30: the file is opened and parsed, the object appended.
LeerArchivo ==
    /\ pc_c = "leer"
    /\ idx_c <= Len(archivos_json)
    /\ contenido_archivo[archivos_json[idx_c]].legible
    /\ hitos_procesales' =
          Append(hitos_procesales, contenido_archivo[archivos_json[idx_c]])
    /\ idx_c' = idx_c + 1
    /\ UNCHANGED << archivos_json, contenido_archivo, contexto_disco, pc_c,
                    expediente_principal, corridas_c, contexto_previo,
                    entrada_previa >>
    /\ UNCHANGED fueraDeConsolidacion

\* Lines 31-33: open or json.load raised; logged, next file.
SaltarArchivo ==
    /\ pc_c = "leer"
    /\ idx_c <= Len(archivos_json)
    /\ ~contenido_archivo[archivos_json[idx_c]].legible
    /\ idx_c' = ContinuarTrasError(idx_c, Len(archivos_json))
    /\ UNCHANGED << archivos_json, contenido_archivo, contexto_disco, pc_c,
                    hitos_procesales, expediente_principal, corridas_c,
                    contexto_previo, entrada_previa >>
    /\ UNCHANGED fueraDeConsolidacion

\* Line 48.  sort computes every key first: if one raises, the exception
\* leaves crear_contexto_del_caso_robusto and is caught at main.py line 540.
OrdenarHitos ==
    /\ pc_c = "leer"
    /\ idx_c > Len(archivos_json)
    /\ IF \E k \in DOMAIN hitos_procesales : ClaveFalla(hitos_procesales[k])
       THEN /\ pc_c' = "error"
            /\ UNCHANGED hitos_procesales
       ELSE /\ hitos_procesales' = Ordenar(hitos_procesales)
            /\ pc_c' = "expediente"
    /\ UNCHANGED << archivos_json, contenido_archivo, contexto_disco, idx_c,
                    expediente_principal, corridas_c, contexto_previo,
                    entrada_previa >>
    /\ UNCHANGED fueraDeConsolidacion

\* Lines 50-52.
DerivarExpediente ==
    /\ pc_c = "expediente"
    /\ IF ExpedienteFalla(hitos_procesales)
       THEN /\ pc_c' = "error"
            /\ UNCHANGED expediente_principal
       ELSE /\ expediente_principal' = ExpedientePrincipal(hitos_procesales)
            /\ pc_c' = "escribir"
    /\ UNCHANGED << archivos_json, contenido_archivo, contexto_disco, idx_c,
                    hitos_procesales, corridas_c, contexto_previo,
                    entrada_previa >>
    /\ UNCHANGED fueraDeConsolidacion

\* Lines 54-68: the CaseContext file is overwritten.
EscribirContexto ==
    /\ pc_c = "escribir"
    /\ contexto_disco' =
          ContextoFinal(contexto_disco, expediente_principal, hitos_procesales)
    /\ pc_c' = "escrito"
    /\ UNCHANGED << archivos_json, contenido_archivo, idx_c, hitos_procesales,
                    expediente_principal, corridas_c, contexto_previo,
                    entrada_previa >>
    /\ UNCHANGED fueraDeConsolidacion

\* ejecutar_generacion_proyecto returns (lines 537-541); the locals of the
\* call are gone.
TerminarConsolidacion ==
    /\ pc_c \in {"escrito", "error"}
    /\ contexto_previo' =
          IF pc_c = "escrito" THEN contexto_disco ELSE ContextoNinguno
    /\ entrada_previa' = archivos_json
    /\ pc_c' = "idle"
    /\ idx_c' = 0
    /\ hitos_procesales' = << >>
    /\ expediente_principal' = "None"
    /\ UNCHANGED << archivos_json, contenido_archivo, contexto_disco,
                    corridas_c >>
    /\ UNCHANGED fueraDeConsolidacion

NextConsolidacion ==
    \/ \E k \in 1 .. MaxArtefactos + 1 : QuitarArtefacto(k)
    \/ SinArchivosMapeados
    \/ IniciarConsolidacion
    \/ LeerArchivo
    \/ SaltarArchivo
    \/ OrdenarHitos
    \/ DerivarExpediente
    \/ EscribirContexto
    \/ TerminarConsolidacion

SpecConsolidacion == InitConsolidacion /\ [][NextConsolidacion]_vars


(***************************************************************************)
(* Part 3: the section pipeline (main.py, generar_secciones_proyecto) for  *)
(* --modo secciones, with its checkpoint (cargar_checkpoint,               *)
(* guardar_checkpoint) and the assembly of the composite document          *)
(* (get_secciones_faltantes, ensamblar_proyecto_sentencia_resiliente).     *)
(*                                                                         *)
(* The number of the run stands for datetime.now(): it is the timestamp    *)
(* in the names of the files a run writes.  Of a section artifact only     *)
(* the name is kept; of the composite, its blocks and its footer.          *)
(***************************************************************************)

\* ---------------------------------------------------------------- bounds
MaxCorridasSecciones == 2   \* runs of the section pipeline over the case

\* ------------------------------------------------------------- pipeline
\* 'nombre' of the entries of pipeline_secciones, in order.
PipelineSecciones == << "antecedentes", "formalidades", "procedencia" >>

NombresPipeline == {PipelineSecciones[k] : k \in DOMAIN PipelineSecciones}

\* tokens_estimados = len(json.dumps(contexto)) // 4: it grows with the
\* number of milestones of the CaseContext.
TokensEstimados(contexto) == 100 + 150 * Len(contexto.hitos_procesales)

\* Name of seccion_<nombre>_<expediente>_<timestamp>.json
ArchivoSeccion(nombre, timestamp) == << nombre, timestamp >>

\* ----------------------------------------------------------- checkpoint

\* The dictionary cargar_checkpoint returns when it does not load the file.
CheckpointInicial ==
    [existe |-> TRUE, estado |-> "iniciando", secciones_completadas |-> << >>,
     errores |-> << >>, tokens_totales |-> 0]

\* cargar_checkpoint when nothing interrupts it.
CargarCheckpoint(disco) ==
    IF disco.existe
    THEN [disco EXCEPT !.estado = "resumiendo"]
    ELSE CheckpointInicial

GuardarSinErrores(progreso) ==
    [progreso EXCEPT !.existe = TRUE, !.errores = << >>]

\* guardar_checkpoint: the file is overwritten with the dictionary.
GuardarCheckpoint(progreso) == [progreso EXCEPT !.existe = TRUE]

ConservarCompletadas(completadas, nombre, entrada) == completadas

\* secciones_completadas[nombre] = {...} on a dictionary.
ConEntrada(completadas, nombre, entrada) ==
    [n \in DOMAIN completadas \cup {nombre} |->
        IF n = nombre THEN entrada ELSE completadas[n]]

FaltantesNinguna(completadas) == << >>

\* get_secciones_faltantes(pipeline_secciones, secciones_completadas)
GetSeccionesFaltantes(completadas) ==
    LET Falta(nombre) == nombre \notin DOMAIN completadas
    IN  SelectSeq(PipelineSecciones, Falta)

\* secciones_cargadas (lines 671-676): the completed sections whose artifact
\* file is in reporte/, each with the file it was loaded from.
SeccionesCargadas(completadas, archivos) ==
    [n \in {m \in DOMAIN completadas : completadas[m].archivo \in archivos}
        |-> completadas[n].archivo]

\* One of the three stanzas of ensamblar_proyecto_sentencia_resiliente.
Bloque(nombre, secciones, faltantes) ==
    IF nombre \in DOMAIN secciones
    THEN << [seccion |-> nombre, tipo |-> "contenido",
             archivo |-> secciones[nombre]] >>
    ELSE IF \E k \in DOMAIN faltantes : faltantes[k] = nombre
         THEN << [seccion |-> nombre, tipo |-> "pendiente",
                  archivo |-> << >>] >>
         ELSE << >>

\* ensamblar_proyecto_sentencia_resiliente(secciones, expediente,
\* secciones_faltantes)
EnsamblarProyecto(secciones, faltantes) ==
    [existe |-> TRUE,
     aviso_parcial |-> faltantes # << >>,
     bloques |-> Bloque("antecedentes", secciones, faltantes)
                 \o Bloque("formalidades", secciones, faltantes)
                 \o Bloque("procedencia", secciones, faltantes),
     pendientes |-> faltantes]

\* Line 722.
EstadoFinal(cargadas) ==
    IF Cardinality(DOMAIN cargadas) = Len(PipelineSecciones)
    THEN "documento_generado"
    ELSE "documento_parcial"

AbortarTrasFallo(k) == Len(PipelineSecciones) + 1

\* "continue" of line 662: the loop goes on with the next section.
ContinuarTrasFallo(k) == k + 1

\* What a step of the section pipeline leaves alone.
fueraDeSecciones == << batchVars, consVars, citaVars, mainVars >>

\* The section being handled by the loop of lines 607-662.
NombreSeccion == PipelineSecciones[idx_s]

\* ---------------------------------------------------------------- Init

\* CaseContext files a consolidation may have left: none, one milestone,
\* two milestones.
ContextosPosibles ==
    LET demanda == Mapeado(1, Forma(TRUE, TRUE, "Demanda de Amparo",
                                    "2023-03-01", "lista"))
        revision == Mapeado(2, Forma(TRUE, TRUE, "Recurso de Revisión",
                                     "2023-05-01", "lista"))
    IN  {ContextoNinguno,
         ContextoFinal(ContextoNinguno, ExpedientePrincipal(<< demanda >>),
                       << demanda >>),
         ContextoFinal(ContextoNinguno,
                       ExpedientePrincipal(<< demanda, revision >>),
                       << demanda, revision >>)}

InitSecciones ==
    /\ BatchInactivo
    /\ archivos_json = << >>
    /\ contenido_archivo = << >>
    /\ contexto_disco \in ContextosPosibles
    /\ ConsolidadorEnReposo
    /\ corridas_c = 0
    /\ contexto_previo = ContextoNinguno
    /\ entrada_previa = << >>
    /\ SeccionesInactivo
    /\ CitasInactivo
    /\ MainInactivo

\* ------------------------------------------------------------- the run

\* Lines 556-559: no CaseContext, the run returns at once.
SinContexto ==
    /\ pc_s = "idle"
    /\ corridas_s < MaxCorridasSecciones
    /\ ~contexto_disco.existe
    /\ corridas_s' = corridas_s + 1
    /\ UNCHANGED << checkpoint_disco, archivos_seccion, proyecto_md, pc_s,
                    progreso_existente, idx_s, completadas_inicio,
                    habia_checkpoint, generadas_corrida, fallidas_corrida >>
    /\ UNCHANGED fueraDeSecciones

\* Lines 556-572: the CaseContext is loaded, the timestamp of the run taken.
IniciarSecciones ==
    /\ pc_s = "idle"
    /\ corridas_s < MaxCorridasSecciones
    /\ contexto_disco.existe
    /\ corridas_s' = corridas_s + 1
    /\ completadas_inicio' = DOMAIN checkpoint_disco.secciones_completadas
    /\ habia_checkpoint' = checkpoint_disco.existe
    /\ generadas_corrida' = {}
    /\ fallidas_corrida' = {}
    /\ pc_s' = "cargar"
    /\ UNCHANGED << checkpoint_disco, archivos_seccion, proyecto_md,
                    progreso_existente, idx_s >>
    /\ UNCHANGED fueraDeSecciones

\* Line 574, cargar_checkpoint.
CargarCheckpointExistente ==
    /\ pc_s = "cargar"
    /\ progreso_existente' = CargarCheckpoint(checkpoint_disco)
    /\ idx_s' = 1
    /\ pc_s' = "loop"
    /\ UNCHANGED << checkpoint_disco, archivos_seccion, proyecto_md,
                    corridas_s, completadas_inicio, habia_checkpoint,
                    generadas_corrida, fallidas_corrida >>
    /\ UNCHANGED fueraDeSecciones

\* SIGINT while cargar_checkpoint reads the file (lines 736-740): the
\* handler installed by SCJNAnalyzer.__init__ runs and its sys.exit(0)
\* raises SystemExit inside the try; the bare "except:" of line 741 catches
\* it, and the function returns the initial dictionary.  The run goes on.
SenalEnCargarCheckpoint ==
    /\ pc_s = "cargar"
    /\ checkpoint_disco.existe
    /\ progreso_existente' = CheckpointInicial
    /\ idx_s' = 1
    /\ pc_s' = "loop"
    /\ UNCHANGED << checkpoint_disco, archivos_seccion, proyecto_md,
                    corridas_s, completadas_inicio, habia_checkpoint,
                    generadas_corrida, fallidas_corrida >>
    /\ UNCHANGED fueraDeSecciones

\* Lines 611-613: the section is in secciones_completadas, skipped.
OmitirSeccion ==
    /\ pc_s = "loop"
    /\ idx_s <= Len(PipelineSecciones)
    /\ NombreSeccion \in DOMAIN progreso_existente.secciones_completadas
    /\ idx_s' = idx_s + 1
    /\ UNCHANGED << checkpoint_disco, archivos_seccion, proyecto_md, pc_s,
                    progreso_existente, corridas_s, completadas_inicio,
                    habia_checkpoint, generadas_corrida, fallidas_corrida >>
    /\ UNCHANGED fueraDeSecciones

\* Lines 617-623: gemini_client.generar_seccion is called.
LlamarGeneracion ==
    /\ pc_s = "loop"
    /\ idx_s <= Len(PipelineSecciones)
    /\ NombreSeccion \notin DOMAIN progreso_existente.secciones_completadas
    /\ generadas_corrida' = generadas_corrida \cup {NombreSeccion}
    /\ pc_s' = "generando"
    /\ UNCHANGED << checkpoint_disco, archivos_seccion, proyecto_md,
                    progreso_existente, idx_s, corridas_s, completadas_inicio,
                    habia_checkpoint, fallidas_corrida >>
    /\ UNCHANGED fueraDeSecciones

\* Lines 626-632: the output passes the section's schema and the section
\* artifact is written.
EscribirSeccion ==
    /\ pc_s = "generando"
    /\ archivos_seccion' =
          archivos_seccion \cup {ArchivoSeccion(NombreSeccion, corridas_s)}
    /\ pc_s' = "actualizar"
    /\ UNCHANGED << checkpoint_disco, proyecto_md, progreso_existente, idx_s,
                    corridas_s, completadas_inicio, habia_checkpoint,
                    generadas_corrida, fallidas_corrida >>
    /\ UNCHANGED fueraDeSecciones

CostoSinAcumular(total, tokens_usados) == total

\* Line 641: progreso_existente['tokens_totales'] += tokens_usados
CostoAcumulado(total, tokens_usados) == total + tokens_usados

\* Lines 635-647: the completed entry, the cumulative cost, the checkpoint.
ActualizarCheckpoint ==
    /\ pc_s = "actualizar"
    /\ LET tokens_usados == TokensEstimados(contexto_disco)
           entrada == [archivo |-> ArchivoSeccion(NombreSeccion, corridas_s),
                       tokens |-> tokens_usados,
                       timestamp |-> corridas_s,
                       status |-> "completada"]
           progreso ==
              [progreso_existente EXCEPT
                 !.secciones_completadas =
                    ConEntrada(@, NombreSeccion, entrada),
                 !.tokens_totales = CostoAcumulado(@, tokens_usados)]
       IN  /\ progreso_existente' = progreso
           /\ checkpoint_disco' = GuardarCheckpoint(progreso)
    /\ idx_s' = idx_s + 1
    /\ pc_s' = "loop"
    /\ UNCHANGED << archivos_seccion, proyecto_md, corridas_s,
                    completadas_inicio, habia_checkpoint, generadas_corrida,
                    fallidas_corrida >>
    /\ UNCHANGED fueraDeSecciones

\* Lines 649-662: the call or the validation raised; the failure is
\* recorded, the checkpoint saved, the loop continues.
FallaSeccion ==
    /\ pc_s = "generando"
    /\ LET progreso ==
              [progreso_existente EXCEPT
                 !.errores = Append(@, [seccion |-> NombreSeccion,
                                        error |-> "Error generando sección",
                                        timestamp |-> corridas_s])]
       IN  /\ progreso_existente' = progreso
           /\ checkpoint_disco' = GuardarCheckpoint(progreso)
    /\ fallidas_corrida' = fallidas_corrida \cup {NombreSeccion}
    /\ idx_s' = ContinuarTrasFallo(idx_s)
    /\ pc_s' = "loop"
    /\ UNCHANGED << archivos_seccion, proyecto_md, corridas_s,
                    completadas_inicio, habia_checkpoint, generadas_corrida >>
    /\ UNCHANGED fueraDeSecciones

\* Lines 665-688: at least one section is completed; the composite is
\* assembled and written.  (The Word pass of lines 692-712 raises NameError
\* on archivo_proyecto_md, which its own except reports as a warning.)
EnsamblarDocumento ==
    /\ pc_s = "loop"
    /\ idx_s > Len(PipelineSecciones)
    /\ DOMAIN progreso_existente.secciones_completadas # {}
    /\ LET secciones_disponibles == progreso_existente.secciones_completadas
           secciones_cargadas ==
              SeccionesCargadas(secciones_disponibles, archivos_seccion)
       IN  proyecto_md' =
              EnsamblarProyecto(secciones_cargadas,
                                GetSeccionesFaltantes(secciones_disponibles))
    /\ pc_s' = "ensamblado"
    /\ UNCHANGED << checkpoint_disco, archivos_seccion, progreso_existente,
                    idx_s, corridas_s, completadas_inicio, habia_checkpoint,
                    generadas_corrida, fallidas_corrida >>
    /\ UNCHANGED fueraDeSecciones

\* Lines 716-726: the final state is set and the checkpoint saved.
GuardarEstadoFinal ==
    /\ pc_s = "ensamblado"
    /\ LET secciones_cargadas ==
              SeccionesCargadas(progreso_existente.secciones_completadas,
                                archivos_seccion)
           progreso ==
              [progreso_existente EXCEPT
                 !.estado = EstadoFinal(secciones_cargadas)]
       IN  /\ progreso_existente' = progreso
           /\ checkpoint_disco' = GuardarCheckpoint(progreso)
    /\ pc_s' = "fin"
    /\ UNCHANGED << archivos_seccion, proyecto_md, idx_s, corridas_s,
                    completadas_inicio, habia_checkpoint, generadas_corrida,
                    fallidas_corrida >>
    /\ UNCHANGED fueraDeSecciones

\* Lines 727-728: no section is completed; a message, nothing written.
NingunaSeccion ==
    /\ pc_s = "loop"
    /\ idx_s > Len(PipelineSecciones)
    /\ DOMAIN progreso_existente.secciones_completadas = {}
    /\ pc_s' = "fin"
    /\ UNCHANGED << checkpoint_disco, archivos_seccion, proyecto_md,
                    progreso_existente, idx_s, corridas_s, completadas_inicio,
                    habia_checkpoint, generadas_corrida, fallidas_corrida >>
    /\ UNCHANGED fueraDeSecciones

\* generar_secciones_proyecto returns; the process ends.
TerminarSecciones ==
    /\ pc_s = "fin"
    /\ pc_s' = "idle"
    /\ progreso_existente' = CheckpointNinguno
    /\ idx_s' = 0
    /\ completadas_inicio' = {}
    /\ habia_checkpoint' = FALSE
    /\ generadas_corrida' = {}
    /\ fallidas_corrida' = {}
    /\ UNCHANGED << checkpoint_disco, archivos_seccion, proyecto_md,
                    corridas_s >>
    /\ UNCHANGED fueraDeSecciones

\* SIGINT anywhere in the run: sys.exit(0) of the handler raises SystemExit,
\* which "except Exception" (lines 649, 730) does not catch; the process
\* ends with what it had written so far.
SenalEnSecciones ==
    /\ pc_s \notin {"idle", "fin"}
    /\ pc_s' = "idle"
    /\ progreso_existente' = CheckpointNinguno
    /\ idx_s' = 0
    /\ completadas_inicio' = {}
    /\ habia_checkpoint' = FALSE
    /\ generadas_corrida' = {}
    /\ fallidas_corrida' = {}
    /\ UNCHANGED << checkpoint_disco, archivos_seccion, proyecto_md,
                    corridas_s >>
    /\ UNCHANGED fueraDeSecciones

NextSecciones ==
    \/ SinContexto
    \/ IniciarSecciones
    \/ CargarCheckpointExistente
    \/ SenalEnCargarCheckpoint
    \/ OmitirSeccion
    \/ LlamarGeneracion
    \/ EscribirSeccion
    \/ ActualizarCheckpoint
    \/ FallaSeccion
    \/ EnsamblarDocumento
    \/ GuardarEstadoFinal
    \/ NingunaSeccion
    \/ TerminarSecciones
    \/ SenalEnSecciones

SpecSecciones == InitSecciones /\ [][NextSecciones]_vars

\* ======================================================================
\* Part 4.  Quote splitting: PuntoAnalisis._partir_en_chunks of
\* src/proyecto_sentencia/models_extraccion.py and partir_cita_larga of
\* src/core/models.py.  A text is a sequence of characters; the two
\* characters are a letter and the blank.  The character limit of the
\* splitters (450 and 950 in the source) is scaled down to MaxChars.
\* ======================================================================

MaxChars == 3
MaxLargo == 16

\* fragmentos[:5] of partir_cita_larga.
MaxFragmentos == 5

Caracteres == {"a", " "}

Textos == UNION {[1 .. n -> Caracteres] : n \in 0 .. MaxLargo}

\* str.split(): the maximal runs of non-blank characters, in order.
RECURSIVE SplitDesde(_, _, _, _)
SplitDesde(texto, k, palabra, palabras) ==
    IF k > Len(texto)
    THEN IF palabra = << >> THEN palabras ELSE Append(palabras, palabra)
    ELSE IF texto[k] = " "
         THEN SplitDesde(texto, k + 1, << >>,
                         IF palabra = << >> THEN palabras
                         ELSE Append(palabras, palabra))
         ELSE SplitDesde(texto, k + 1, Append(palabra, texto[k]), palabras)

Split(texto) == SplitDesde(texto, 1, << >>, << >>)

\* palabra[:max_chars]
Prefijo(palabra, max_chars) ==
    SubSeq(palabra, 1, IF Len(palabra) < max_chars THEN Len(palabra)
                       ELSE max_chars)

NuevoSinEspacio(actual, palabra) == actual \o palabra

\* nuevo_chunk = chunk_actual + " " + palabra if chunk_actual else palabra
NuevoFragmento(actual, palabra) ==
    IF actual # << >> THEN actual \o << " " >> \o palabra ELSE palabra

\* The "for palabra in palabras" loop of both splitters, from word k on,
\* and the final "if chunk_actual: chunks.append(chunk_actual)".
RECURSIVE BuclePalabras(_, _, _, _, _)
BuclePalabras(palabras, k, actual, chunks, max_chars) ==
    IF k > Len(palabras)
    THEN IF actual # << >> THEN Append(chunks, actual) ELSE chunks
    ELSE LET palabra == palabras[k]
             nuevo == NuevoFragmento(actual, palabra)
         IN  IF Len(nuevo) <= max_chars
             THEN BuclePalabras(palabras, k + 1, nuevo, chunks, max_chars)
             ELSE IF actual # << >>
                  THEN BuclePalabras(palabras, k + 1, palabra,
                                     Append(chunks, actual), max_chars)
                  ELSE BuclePalabras(palabras, k + 1, << >>,
                                     Append(chunks,
                                            Prefijo(palabra, max_chars)),
                                     max_chars)

\* PuntoAnalisis._partir_en_chunks(texto, max_chars)
PartirEnChunksDe(texto, max_chars) ==
    IF Len(texto) <= max_chars
    THEN << texto >>
    ELSE BuclePalabras(Split(texto), 1, << >>, << >>, max_chars)

\* lista[:n]
Primeros(lista, n) ==
    SubSeq(lista, 1, IF Len(lista) < n THEN Len(lista) ELSE n)

\* partir_cita_larga(cita_texto, max_chars)
PartirCitaLargaDe(texto, max_chars) ==
    IF Len(texto) <= max_chars
    THEN << texto >>
    ELSE Primeros(BuclePalabras(Split(texto), 1, << >>, << >>, max_chars),
                  MaxFragmentos)

fueraDeCitas == << batchVars, consVars, secVars, mainVars >>

InitCitas ==
    /\ BatchInactivo
    /\ ConsolidadorInactivo
    /\ SeccionesInactivo
    /\ cita_texto \in Textos
    /\ fragmentos = << >>
    /\ citas_artefacto = << >>
    /\ pc_q = "entrada"
    /\ MainInactivo

\* The citas validator of the Milestone schema splits the quote.
PartirEnChunks ==
    /\ pc_q = "entrada"
    /\ fragmentos' = PartirEnChunksDe(cita_texto, MaxChars)
    /\ pc_q' = "chunks"
    /\ UNCHANGED << cita_texto, citas_artefacto, fueraDeCitas >>

\* normalize_citas of core/models.py splits the quote.
PartirCitaLarga ==
    /\ pc_q = "entrada"
    /\ fragmentos' = PartirCitaLargaDe(cita_texto, MaxChars)
    /\ pc_q' = "cita"
    /\ UNCHANGED << cita_texto, citas_artefacto, fueraDeCitas >>

\* Cita.texto, max_length=500, against the 450 of the chunks.
LargoMaximoCita == MaxChars + 1

\* The citas validator of PuntoAnalisis (models_extraccion.py 44-62) on a
\* list holding one quote.
PartirCitasLargas(texto_original) ==
    IF Len(texto_original) <= LargoMaximoCita
    THEN << texto_original >>
    ELSE PartirEnChunksDe(texto_original, MaxChars)

\* Cita(texto=chunk) accepts every fragment and the list passes max_items.
CitasValidas(citas) ==
    /\ Len(citas) <= MaxFragmentos
    /\ \A k \in DOMAIN citas : Len(citas[k]) <= LargoMaximoCita

\* json.dump(resultado_json, f): what lines 283-284 of main.py put in the
\* file, given the output of the service and the validated document.
CitasPersistidas(resultado_json, documento_validado) == resultado_json

\* main.py 273-284 for an output of the service whose one quote is
\* cita_texto: the schema validation, then the artifact.
EscribirArtefacto ==
    /\ pc_q = "entrada"
    /\ fragmentos' = PartirCitasLargas(cita_texto)
    /\ IF CitasValidas(PartirCitasLargas(cita_texto))
       THEN /\ citas_artefacto' =
                  CitasPersistidas(<< cita_texto >>,
                                   PartirCitasLargas(cita_texto))
            /\ pc_q' = "artefacto"
       ELSE /\ citas_artefacto' = citas_artefacto
            /\ pc_q' = "rechazado"
    /\ UNCHANGED << cita_texto, fueraDeCitas >>

NextCitas ==
    \/ PartirEnChunks
    \/ PartirCitaLarga
    \/ EscribirArtefacto

SpecCitas == InitCitas /\ [][NextCitas]_vars

\* ======================================================================
\* Part 5.  main() of src/main.py: validation of the case directory, the
\* dispatch on --modo, the prompts that follow the phases, and the exit
\* status.  A phase is followed from its call to its return; what it does
\* inside is the subject of Parts 1 to 3.
\* ======================================================================

MaxLineas == 5

\* choices of --modo
Modos == {"extraccion", "contexto", "secciones", "completo"}

\* The phases, in the order main() tests for them (lines 917-931).
Fases == << "extraccion", "contexto", "secciones" >>

\* What args.expediente can name: nothing, a file, or a directory.
Rutas == {"no_existe", "archivo", "carpeta"}

\* Lines of standard input after .strip(): empty or not.
Lineas == {"", "x"}

Entradas == UNION {[1 .. n -> Lineas] : n \in 0 .. MaxLineas}

\* input() calls before the "while True" loop (lines 935-937).
PreguntasFijas == 3

FaseSiempre(m, fase) == TRUE

\* "if args.modo in [<fase>, 'completo']"
FaseSeleccionada(m, fase) == m \in {fase, "completo"}

CodigoSoloPorRuta(causa) == IF causa = "ruta" THEN 1 ELSE 0

\* Exit status: sys.exit(1) of lines 899, 903 and 949, sys.exit(0) of the
\* signal handler (line 77), and 0 when main() returns.
CodigoDeSalida(causa) ==
    CASE causa = "ruta" -> 1
      [] causa = "fatal" -> 1
      [] causa = "senal" -> 0
      [] causa = "normal" -> 0

Evento(tipo, fase) == << tipo, fase >>

fueraDeMain == << batchVars, consVars, secVars, citaVars >>

InitMain ==
    /\ BatchInactivo
    /\ ConsolidadorInactivo
    /\ SeccionesInactivo
    /\ CitasInactivo
    /\ ruta \in Rutas
    /\ modo \in Modos
    /\ stdin_lineas \in Entradas
    /\ pc_m = "validar"
    /\ leidas = 0
    /\ completo_m = FALSE
    /\ codigo_m = 0
    /\ traza = << >>
    /\ senal_m = FALSE

\* Lines 896-914: the two checks of the path, then the analyzer is built.
ValidarRuta ==
    /\ pc_m = "validar"
    /\ IF ruta # "carpeta"
       THEN /\ codigo_m' = CodigoDeSalida("ruta")
            /\ pc_m' = "terminado"
       ELSE /\ pc_m' = "si_extraccion"
            /\ UNCHANGED codigo_m
    /\ UNCHANGED << ruta, modo, stdin_lineas, leidas, completo_m, traza,
                    senal_m,
                    fueraDeMain >>

\* Line 917.
DespacharExtraccion ==
    /\ pc_m = "si_extraccion"
    /\ IF FaseSeleccionada(modo, "extraccion")
       THEN /\ traza' = Append(traza, Evento("llamada", "extraccion"))
            /\ pc_m' = "en_extraccion"
       ELSE /\ pc_m' = "si_contexto"
            /\ UNCHANGED traza
    /\ UNCHANGED << ruta, modo, stdin_lineas, leidas, completo_m, codigo_m,
                    senal_m, fueraDeMain >>

\* Lines 919-923: procesar_expediente_completo returns its verdict; the
\* executive report, made when it is true, contains its own errors.
RetornarExtraccion ==
    /\ pc_m = "en_extraccion"
    /\ \E completo \in BOOLEAN : completo_m' = completo
    /\ traza' = Append(traza, Evento("retorno", "extraccion"))
    /\ pc_m' = "si_contexto"
    /\ UNCHANGED << ruta, modo, stdin_lineas, leidas, codigo_m, senal_m,
                    fueraDeMain >>

\* Line 925.
DespacharContexto ==
    /\ pc_m = "si_contexto"
    /\ IF FaseSeleccionada(modo, "contexto")
       THEN /\ traza' = Append(traza, Evento("llamada", "contexto"))
            /\ pc_m' = "en_contexto"
       ELSE /\ pc_m' = "si_secciones"
            /\ UNCHANGED traza
    /\ UNCHANGED << ruta, modo, stdin_lineas, leidas, completo_m, codigo_m,
                    senal_m, fueraDeMain >>

\* Line 927: ejecutar_generacion_proyecto returns (it catches Exception).
RetornarContexto ==
    /\ pc_m = "en_contexto"
    /\ traza' = Append(traza, Evento("retorno", "contexto"))
    /\ pc_m' = "si_secciones"
    /\ UNCHANGED << ruta, modo, stdin_lineas, leidas, completo_m, codigo_m,
                    senal_m, fueraDeMain >>

\* Line 929.
DespacharSecciones ==
    /\ pc_m = "si_secciones"
    /\ IF FaseSeleccionada(modo, "secciones")
       THEN /\ traza' = Append(traza, Evento("llamada", "secciones"))
            /\ pc_m' = "en_secciones"
       ELSE /\ pc_m' = "captura"
            /\ UNCHANGED traza
    /\ UNCHANGED << ruta, modo, stdin_lineas, leidas, completo_m, codigo_m,
                    senal_m, fueraDeMain >>

\* Line 931: generar_secciones_proyecto returns (it catches Exception).
RetornarSecciones ==
    /\ pc_m = "en_secciones"
    /\ traza' = Append(traza, Evento("retorno", "secciones"))
    /\ pc_m' = "captura"
    /\ UNCHANGED << ruta, modo, stdin_lineas, leidas, completo_m, codigo_m,
                    senal_m, fueraDeMain >>

\* Lines 935-937: one of the three input() calls.  At end of input it
\* raises EOFError, which "except Exception" (947-949) turns into exit 1.
CapturarDato ==
    /\ pc_m = "captura"
    /\ IF leidas < Len(stdin_lineas)
       THEN /\ leidas' = leidas + 1
            /\ pc_m' = IF leidas + 1 = PreguntasFijas
                       THEN "colaboradores" ELSE "captura"
            /\ UNCHANGED codigo_m
       ELSE /\ codigo_m' = CodigoDeSalida("fatal")
            /\ pc_m' = "terminado"
            /\ UNCHANGED leidas
    /\ UNCHANGED << ruta, modo, stdin_lineas, completo_m, traza, senal_m,
                    fueraDeMain >>

\* Lines 939-943: one turn of the "while True" loop; an empty line ends
\* it and main() returns.
CapturarColaborador ==
    /\ pc_m = "colaboradores"
    /\ IF leidas < Len(stdin_lineas)
       THEN /\ leidas' = leidas + 1
            /\ IF stdin_lineas[leidas + 1] = ""
               THEN /\ codigo_m' = CodigoDeSalida("normal")
                    /\ pc_m' = "terminado"
               ELSE /\ pc_m' = "colaboradores"
                    /\ UNCHANGED codigo_m
       ELSE /\ codigo_m' = CodigoDeSalida("fatal")
            /\ pc_m' = "terminado"
            /\ UNCHANGED leidas
    /\ UNCHANGED << ruta, modo, stdin_lineas, completo_m, traza, senal_m,
                    fueraDeMain >>

\* SIGINT once the analyzer exists: _signal_handler ends in sys.exit(0),
\* and SystemExit passes both except clauses of main().
SenalEnMain ==
    /\ pc_m \in {"si_extraccion", "en_extraccion", "si_contexto",
                 "en_contexto", "si_secciones", "en_secciones", "captura",
                 "colaboradores"}
    /\ senal_m' = TRUE
    /\ codigo_m' = CodigoDeSalida("senal")
    /\ pc_m' = "terminado"
    /\ UNCHANGED << ruta, modo, stdin_lineas, leidas, completo_m, traza,
                    fueraDeMain >>

NextMain ==
    \/ ValidarRuta
    \/ DespacharExtraccion
    \/ RetornarExtraccion
    \/ DespacharContexto
    \/ RetornarContexto
    \/ DespacharSecciones
    \/ RetornarSecciones
    \/ CapturarDato
    \/ CapturarColaborador
    \/ SenalEnMain

SpecMain == InitMain /\ [][NextMain]_vars

\* The extractor call has returned after at least one attempt, every
\* attempt failed, and the last one on an output that did not validate.
TerminoConSalidaInvalida ==
    /\ pc = "post_doc"
    /\ intentos_doc >= 1
    /\ fallos_doc = intentos_doc
    /\ error_actual = "validacion"

\* The step appends a success entry to the log in memory (reading the log
\* of an earlier run, lines 140-146, is not an append).
AgregaExito ==
    /\ pc # "analizar"
    /\ Len(bitacora') = Len(bitacora) + 1
    /\ bitacora' = Append(bitacora, bitacora'[Len(bitacora')])
    /\ bitacora'[Len(bitacora')].status = "success"

\* The step is an attempt whose output fails the schema validation.
IntentoInvalido ==
    pc = "llamar" /\ pc' = "except" /\ error_actual' = "validacion"

\* A step writes an artifact or appends a success entry only as part of an
\* attempt whose output validated; an attempt whose output did not validate
\* writes no artifact and appends nothing.
SoloTrasValidar ==
    /\ artefactos' # artefactos => (pc = "llamar" /\ pc' = "registrar")
    /\ AgregaExito => pc = "registrar"
    /\ IntentoInvalido => (artefactos' = artefactos /\ bitacora' = bitacora)

\* C23: invalid output.  A service output that does not pass the Milestone
\* schema is a failed attempt: an artifact is written and a success entry
\* appended only for an attempt whose output validated, and a document
\* whose attempts all fail, the last on an invalid output, ends with one new
\* entry, an error entry, and no artifact written by those attempts.
C23_SalidaInvalidaEsFallo ==
    /\ [](TerminoConSalidaInvalida =>
             /\ Len(bitacora) = base_doc + 1
             /\ bitacora[Len(bitacora)]
                   = BitacoraEntry(corrida, Archivo, "error", "validacion"))
    /\ [][SoloTrasValidar]_vars

\* Two attempts, both failed, the last on an invalid output; the artifact
\* of the document's stem is not the document's.
C23_Witness ==
    /\ TerminoConSalidaInvalida
    /\ intentos_doc = 2
    /\ artefactos[Stem(Archivo)] # Archivo

\* Rank of a document name in ascending lexicographic order of names.
Posicion(d) == CHOOSE k \in DOMAIN DocUniverse : DocUniverse[k] = d

\* The documents of the entries this process has appended, in log order.
DocumentosAgregados ==
    [k \in 1 .. (Len(bitacora) - Len(bitacora_inicio)) |->
        bitacora[Len(bitacora_inicio) + k].documento]

\* The loop body of procesar_expediente_completo is running for a document.
IteracionEnCurso == EnDocumento \/ pc = "post_doc"

\* C24: sequential processing in name order.  The pending documents are
\* in ascending order of name, the entries the run appends follow that
\* order, and while the iteration of one document runs every pending
\* document before it already has its entry of this run.
C24_UnoPorUnoEnOrden ==
    pc \in {"loop", "guardar"} \cup {"extraer", "fallback", "llamar",
                                      "registrar", "except", "post_doc"} =>
        /\ \A j, k \in DOMAIN docs_pendientes :
              j < k => Posicion(docs_pendientes[j])
                           < Posicion(docs_pendientes[k])
        /\ \A j, k \in DOMAIN DocumentosAgregados :
              j < k => Posicion(DocumentosAgregados[j])
                           < Posicion(DocumentosAgregados[k])
        /\ IteracionEnCurso =>
              \A k \in 1 .. i :
                 \E j \in DOMAIN DocumentosAgregados :
                    DocumentosAgregados[j] = docs_pendientes[k]

\* The jsons/<stem>_mapeado.json file of a document still holds what the
\* processing of that document wrote.
ArtefactoPropio(d) == artefactos[Stem(d)] = d

\* C27: one artifact per processed document.  Every document with a
\* success entry in the persisted log has its own artifact: no other
\* document's processing has written over it.
C27_UnArtefactoPorDocumento ==
    \A d \in DocNames :
       ExitoPersistido(bitacora_disco, d) => ArtefactoPropio(d)

\* The loop over the pending documents is over and no signal has come.
LoopTerminadoSinSenal ==
    /\ ~proceso_interrumpido
    /\ docs_pendientes # << >>
    /\ \/ pc \in {"guardar", "retorno"}
       \/ (pc = "verificar" /\ i = Len(docs_pendientes))
       \/ (pc = "terminado" /\ salida_previa = "normal")

\* The step is an inter-document pause.
PausaEntreDocumentos == pausas_documentos' = pausas_documentos + 1

\* C32: inter-document pause.  A run over N pending documents that is not
\* interrupted pauses exactly N-1 times; while document k+1 is processed
\* there have been k pauses, one after each earlier document; a pause
\* never follows the last document and never happens once the interrupted
\* flag is set.
C32_PausasEntreDocumentos ==
    /\ [](LoopTerminadoSinSenal =>
             pausas_documentos = Len(docs_pendientes) - 1)
    /\ []((IteracionEnCurso /\ ~proceso_interrumpido) =>
             pausas_documentos = i)
    /\ [][PausaEntreDocumentos =>
             /\ pc = "post_doc"
             /\ ~proceso_interrumpido
             /\ i + 1 < Len(docs_pendientes)]_vars

\* Two pending documents, both processed, one pause, the run at its end.
C32_Witness ==
    /\ LoopTerminadoSinSenal
    /\ pc = "retorno"
    /\ Len(docs_pendientes) = 2
    /\ pausas_documentos = 1

\* The coordinator found nothing pending and has taken, or finished, the
\* path of lines 345-347.
CortocircuitoSinPendientes ==
    /\ docs_pendientes = << >>
    /\ \/ pc \in {"verificar", "retorno"}
       \/ (pc = "terminado" /\ salida_previa = "normal")

\* C22: nothing pending.  When no document is pending at the start of a
\* batch run, the coordinator makes no call to the extraction service,
\* appends no audit entry and does not rewrite the audit log; it goes to the
\* completeness check and returns its result.
C22_NadaPendiente ==
    CortocircuitoSinPendientes =>
        /\ ~servicio_llamado
        /\ Len(bitacora) = Len(bitacora_inicio)
        /\ escrituras_bitacora = 0
        /\ bitacora_disco = bitacora_inicio
        /\ pausas_documentos = 0
        /\ pc # "verificar" =>
              (expediente_completo
                  <=> \A d \in documentos : ExitoPersistido(bitacora_disco, d))

\* A run over a folder whose documents all have a success entry has
\* returned True from the short-circuit.
C22_Witness ==
    /\ pc = "retorno"
    /\ docs_pendientes = << >>
    /\ documentos # {}
    /\ bitacora_inicio # << >>
    /\ expediente_completo

\* A step in which the running process writes jsons/bitacora_proceso.json.
EscribeBitacora == escrituras_bitacora' > escrituras_bitacora

\* C33: the completion flag in the summary of every persisted log equals
\* the superset relation between the documents with a success entry and
\* the documents available at the moment of the write, i.e. it agrees with
\* _verificar_expediente_completo on the same state.
C33_BanderaDeCompletitud ==
    [][EscribeBitacora =>
          resumen_disco'.expediente_completo
              = VerificarExpedienteCompleto(documentos', bitacora')]_vars

\* C38: in every persisted log the cumulative cost of the summary equals the
\* sum of the cost metric over that log's success entries, whether the log
\* was written after the loop or by the interrupt flush; a reload at the
\* next run recomputes that same value.
C38_CostoAcumulado ==
    /\ resumen_disco.tokens_totales = TokensAcumulados(bitacora_disco)
    /\ (pc = "loop" /\ i = 0 /\ bitacora # << >>)
           => tokens_totales = resumen_disco.tokens_totales

\* Every available document has a success entry in the persisted log and
\* the run has found the case complete.
Convergido ==
    /\ pc = "retorno"
    /\ expediente_completo
    /\ \A d \in documentos : ExitoPersistido(bitacora_disco, d)

\* The log this run loaded already had a success entry for every document.
YaConvergido ==
    /\ pc \notin {"idle", "inicio", "analizar"}
    /\ \A d \in documentos : ExitoPersistido(bitacora_inicio, d)

\* C37: convergence under re-invocation.  Every run that starts ends; when
\* extraction stops failing, the repeated runs reach a state where every
\* available document has a persisted success entry and the case is found
\* complete; and a run that starts from such a log calls the service for
\* no document.
C37_Convergencia ==
    /\ (pc = "inicio") ~> (pc = "terminado")
    /\ <>Convergido
    /\ [](YaConvergido => ~servicio_llamado)

\* The second run finds the case complete after a first run that left an
\* error entry for one of two documents.
C37_Witness ==
    /\ Convergido
    /\ corrida = 2
    /\ Cardinality(documentos) = 2
    /\ \E k \in DOMAIN bitacora : bitacora[k].status = "error"

\* No document has two success entries in a log.
UnExitoPorDocumento(entries) ==
    \A j, k \in DOMAIN entries :
        (/\ entries[j].status = "success"
         /\ entries[k].status = "success"
         /\ entries[j].documento = entries[k].documento) => j = k

\* C39: across runs and interruptions, the log in memory and the persisted
\* log hold at most one success entry per document name, and the document
\* the Retrying Extractor is working on had no success entry in the log
\* this run loaded.
C39_UnExitoPorDocumento ==
    /\ UnExitoPorDocumento(bitacora)
    /\ UnExitoPorDocumento(bitacora_disco)
    /\ EnDocumento => Archivo \notin DocsExitosos(bitacora_inicio)

\* The second run over a folder found the success entry of the first run,
\* processed only the other document and has appended its success.
C39_Witness ==
    /\ corrida = 2
    /\ pc = "post_doc"
    /\ DocsExitosos(bitacora_inicio) # {}
    /\ Cardinality(DocsExitosos(bitacora)) = 2
    /\ Len(bitacora) >= 3


(***************************************************************************)
(* Properties of the chronology consolidator.                              *)
(***************************************************************************)

\* Stage rank and resolution date of a milestone of a written CaseContext.
RangoDe(hito) == clave_ordenamiento(hito)[1]

FechaDe(hito) == clave_ordenamiento(hito)[2]

\* The call has just written the CaseContext file.
ContextoEscrito == pc_c = "escrito"

\* C11: chronology order.  The milestones of the written CaseContext are in
\* ascending order of (stage rank, resolution date): of two milestones the
\* one of smaller rank comes first whatever their dates, and of two of the
\* same rank the one of earlier date comes first.
C11_OrdenCronologico ==
    contexto_disco.existe =>
        \A a, b \in DOMAIN contexto_disco.hitos_procesales :
            LET ha == contexto_disco.hitos_procesales[a]
                hb == contexto_disco.hitos_procesales[b]
            IN  /\ RangoDe(ha) < RangoDe(hb) => a < b
                /\ (RangoDe(ha) = RangoDe(hb) /\ FechaDe(ha) < FechaDe(hb))
                      => a < b

\* Two recognized stages written with the smaller rank first although it
\* has the later date, after the files were read in the opposite order.
C11_Witness ==
    /\ ContextoEscrito
    /\ Len(contexto_disco.hitos_procesales) = 2
    /\ contexto_disco.hitos_procesales[1].documento = 2
    /\ RangoDe(contexto_disco.hitos_procesales[1]) = 3
    /\ RangoDe(contexto_disco.hitos_procesales[2]) = 5
    /\ FechaDe(contexto_disco.hitos_procesales[1])
          > FechaDe(contexto_disco.hitos_procesales[2])

\* The stage tag of the milestone is not a key of the rank table.
EtapaNoReconocida(hito) == EtapaDe(hito) \notin DOMAIN ORDEN_ETAPAS

\* What makes a call end without writing: a date strptime rejects, or an
\* empty docket list in the last milestone.
CausaDeFallo ==
    \/ \E k \in DOMAIN hitos_procesales : ClaveFalla(hitos_procesales[k])
    \/ ExpedienteFalla(hitos_procesales)

\* C12: unknown-stage tolerance.  A milestone whose stage tag is not in the
\* rank table ("Otra", a missing stage) never makes the consolidation fail:
\* a call fails only on a rejected date or an empty docket list.  In the
\* written CaseContext such a milestone comes after every milestone of a
\* recognized stage, whatever its date.
C12_EtapaDesconocidaAlFinal ==
    /\ pc_c = "error" => CausaDeFallo
    /\ contexto_disco.existe =>
          \A a, b \in DOMAIN contexto_disco.hitos_procesales :
              (/\ EtapaNoReconocida(contexto_disco.hitos_procesales[a])
               /\ ~EtapaNoReconocida(contexto_disco.hitos_procesales[b]))
                  => b < a

\* An "Otra" milestone read first and dated before a recognized one is
\* written after it.
C12_Witness ==
    /\ ContextoEscrito
    /\ Len(contexto_disco.hitos_procesales) = 2
    /\ contexto_disco.hitos_procesales[2].documento = 1
    /\ contexto_disco.hitos_procesales[2].etapa_procesal_resuelta = "Otra"
    /\ ~EtapaNoReconocida(contexto_disco.hitos_procesales[1])
    /\ FechaDe(contexto_disco.hitos_procesales[2])
          < FechaDe(contexto_disco.hitos_procesales[1])

\* The milestone carries at least one docket identifier.
TieneExpedientes(hito) ==
    /\ hito.bloque
    /\ hito.con_expedientes
    /\ hito.expedientes_principales # << >>

\* C13: principal docket.  The principal docket of the written CaseContext
\* is the first docket identifier of the last milestone of its sorted list,
\* and the sentinel "No identificado" when it has no milestones.
C13_ExpedienteDelUltimo ==
    contexto_disco.existe =>
        LET hitos == contexto_disco.hitos_procesales
        IN  /\ hitos = << >> =>
                  contexto_disco.expediente_principal = "No identificado"
            /\ (hitos # << >> /\ TieneExpedientes(hitos[Len(hitos)])) =>
                  contexto_disco.expediente_principal
                     = hitos[Len(hitos)].expedientes_principales[1]

\* Two milestones with different dockets; the one read first is sorted last
\* and gives the principal docket.
C13_Witness ==
    /\ ContextoEscrito
    /\ Len(contexto_disco.hitos_procesales) = 2
    /\ contexto_disco.hitos_procesales[2].documento = 1
    /\ TieneExpedientes(contexto_disco.hitos_procesales[1])
    /\ contexto_disco.expediente_principal = Dockets[1]

\* The docket a milestone stands for: its first identifier, the sentinel
\* when it carries none.
PrimerExpediente(hito) ==
    IF TieneExpedientes(hito)
    THEN hito.expedientes_principales[1]
    ELSE "No identificado"

\* No milestone of the list has a later resolution date than hito.
FechaMasReciente(hito, hitos) ==
    \A j \in DOMAIN hitos : FechaDe(hitos[j]) <= FechaDe(hito)

\* No milestone of the list has a greater (stage rank, date) pair than hito.
ClaveMayor(hito, hitos) ==
    \A j \in DOMAIN hitos :
        \/ RangoDe(hitos[j]) < RangoDe(hito)
        \/ (RangoDe(hitos[j]) = RangoDe(hito)
            /\ FechaDe(hitos[j]) <= FechaDe(hito))

\* C14 as stated: for every non-empty set of milestones the principal docket
\* is the docket of a milestone with the latest resolution date of all.
C14_Original ==
    (contexto_disco.existe /\ contexto_disco.hitos_procesales # << >>) =>
        \E k \in DOMAIN contexto_disco.hitos_procesales :
            LET hito == contexto_disco.hitos_procesales[k]
            IN  /\ FechaMasReciente(hito, contexto_disco.hitos_procesales)
                /\ contexto_disco.expediente_principal
                      = PrimerExpediente(hito)

\* C14: principal docket and the chronology.  For every non-empty set of
\* milestones the principal docket is the docket of a milestone that is
\* greatest in (stage rank, resolution date) order: of the highest stage
\* rank present and, within that rank, of the latest resolution date.
C14_ExpedienteDeClaveMayor ==
    (contexto_disco.existe /\ contexto_disco.hitos_procesales # << >>) =>
        \E k \in DOMAIN contexto_disco.hitos_procesales :
            LET hito == contexto_disco.hitos_procesales[k]
            IN  /\ ClaveMayor(hito, contexto_disco.hitos_procesales)
                /\ contexto_disco.expediente_principal
                      = PrimerExpediente(hito)

\* The milestone of the latest date has the lower stage rank and was read
\* last; the principal docket is the docket of the other one.
C14_Witness ==
    /\ ContextoEscrito
    /\ Len(contexto_disco.hitos_procesales) = 2
    /\ contexto_disco.hitos_procesales[1].documento = 2
    /\ ~EtapaNoReconocida(contexto_disco.hitos_procesales[2])
    /\ FechaDe(contexto_disco.hitos_procesales[1])
          > FechaDe(contexto_disco.hitos_procesales[2])
    /\ contexto_disco.expediente_principal = Dockets[1]

\* The file can be opened and holds JSON.
EsLegible(f) == contenido_archivo[f].legible

\* The objects of the readable files of a list of files, in its order.
ContenidosLegibles(lista) ==
    LET legibles == SelectSeq(lista, EsLegible)
    IN  [k \in DOMAIN legibles |-> contenido_archivo[legibles[k]]]

\* The elements of a list as a set.
Elementos(lista) == {lista[k] : k \in DOMAIN lista}

\* C15: corrupt-artifact tolerance.  An artifact that cannot be opened or
\* parsed is skipped and the call goes on: while reading, the milestones
\* held are those of the readable files met so far; the call fails only on
\* something a readable artifact holds; and the CaseContext it writes has
\* exactly the milestones of all the readable artifacts, once each.
C15_ArtefactoCorruptoOmitido ==
    /\ pc_c = "leer" =>
          /\ idx_c <= Len(archivos_json) + 1
          /\ hitos_procesales
                = ContenidosLegibles(SubSeq(archivos_json, 1, idx_c - 1))
    /\ pc_c = "error" =>
          \/ \E k \in DOMAIN hitos_procesales :
                /\ hitos_procesales[k].legible
                /\ ClaveFalla(hitos_procesales[k])
          \/ ExpedienteFalla(hitos_procesales)
    /\ ContextoEscrito =>
          /\ Elementos(contexto_disco.hitos_procesales)
                = Elementos(ContenidosLegibles(archivos_json))
          /\ Len(contexto_disco.hitos_procesales)
                = Len(ContenidosLegibles(archivos_json))

\* The first file of the list is unreadable, the second is not: the
\* written CaseContext holds the milestone of the second alone.
C15_Witness ==
    /\ ContextoEscrito
    /\ Len(archivos_json) = 2
    /\ ~EsLegible(archivos_json[1])
    /\ EsLegible(archivos_json[2])
    /\ contexto_disco.hitos_procesales
          = << contenido_archivo[archivos_json[2]] >>

\* The previous call wrote a CaseContext from the list of files the
\* current call was given.
MismaEntradaQueAntes ==
    contexto_previo.existe /\ entrada_previa = archivos_json

\* C16: idempotence and full rebuild.  A call on the list of artifacts of
\* the previous call writes the same ordered milestones and the same
\* principal docket; and whatever the previous CaseContext held, the one a
\* call writes holds only milestones of artifacts it read itself, each once.
C16_IdempotenteYReconstruido ==
    ContextoEscrito =>
        /\ MismaEntradaQueAntes =>
              /\ contexto_disco.hitos_procesales
                    = contexto_previo.hitos_procesales
              /\ contexto_disco.expediente_principal
                    = contexto_previo.expediente_principal
        /\ Elementos(contexto_disco.hitos_procesales)
              \subseteq Elementos(ContenidosLegibles(archivos_json))
        /\ Cardinality(Elementos(contexto_disco.hitos_procesales))
              = Len(contexto_disco.hitos_procesales)

\* A second call on the same two artifacts, which the sort had to reorder,
\* has rewritten the CaseContext the first call left.
C16_Witness ==
    /\ ContextoEscrito
    /\ corridas_c = 2
    /\ MismaEntradaQueAntes
    /\ Len(contexto_disco.hitos_procesales) = 2
    /\ contexto_disco.hitos_procesales[1].documento = 2

\* C36: consolidation-input errors are never fatal.  Whatever the readable
\* artifacts hold, a call of the consolidator does not raise, and a call
\* that was given artifacts has returned having written the CaseContext.
C36_EntradaNuncaFatal ==
    /\ pc_c # "error"
    /\ (pc_c = "idle" /\ corridas_c > 0 /\ entrada_previa # << >>)
          => contexto_previo.existe

\* Every order in which the same artifacts can be enumerated.
Enumeraciones(lista) ==
    {[k \in DOMAIN lista |-> lista[p[k]]] :
        p \in {f \in [DOMAIN lista -> DOMAIN lista] :
                  \A a, b \in DOMAIN lista : f[a] = f[b] => a = b}}

\* C35: ordering determinism.  The sorted milestone list depends only on
\* the set of milestones: sorting any other enumeration of the artifacts
\* just read gives the list this call has obtained, also when two
\* milestones have the same stage rank and resolution date.
C35_OrdenDeterminista ==
    pc_c \in {"expediente", "escribir"} =>
        \A otra \in Enumeraciones(ContenidosLegibles(archivos_json)) :
            Ordenar(otra) = hitos_procesales


(***************************************************************************)
(* Properties of the section pipeline.                                     *)
(***************************************************************************)

\* The run has attempted or skipped every section and done what follows
\* the loop.
CorridaCompleta == pc_s = "fin"

\* The names in the completed set of a checkpoint.
Completadas(checkpoint) == DOMAIN checkpoint.secciones_completadas

\* The section is completed in the checkpoint file with an artifact that a
\* run before the current one wrote.
CompletadaDeAntes(n) ==
    /\ n \in Completadas(checkpoint_disco)
    /\ checkpoint_disco.secciones_completadas[n].archivo \in archivos_seccion
    /\ checkpoint_disco.secciones_completadas[n].archivo[2] < corridas_s

\* C17: restart-safety.  Across any sequence of runs, a run asks the
\* service to generate a section only if the section was not in the
\* completed set of the checkpoint when the run started; and a section that
\* was completed then stays completed in the checkpoint, with the artifact
\* it had, all through the run.
C17_ReanudacionSegura ==
    /\ generadas_corrida \cap completadas_inicio = {}
    /\ \A n \in completadas_inicio : CompletadaDeAntes(n)

\* The run started without a checkpoint file, and some but not all of the
\* sections failed in it.
FrescaConFalloParcial ==
    /\ ~habia_checkpoint
    /\ fallidas_corrida # {}
    /\ fallidas_corrida # NombresPipeline

\* The section has its artifact of this run in reporte/ and its completed
\* entry, naming that artifact, in the checkpoint file.
PersistidaEnEstaCorrida(n) ==
    /\ ArchivoSeccion(n, corridas_s) \in archivos_seccion
    /\ n \in Completadas(checkpoint_disco)
    /\ checkpoint_disco.secciones_completadas[n].archivo
          = ArchivoSeccion(n, corridas_s)
    /\ checkpoint_disco.secciones_completadas[n].status = "completada"

\* C18: partial tolerance.  In a fresh run in which some but not all of the
\* sections fail, every other section is completed, with its artifact and
\* its checkpoint entry persisted; the composite has the content of the
\* successful sections and a placeholder for each failed one; and the final
\* state is documento_parcial.
C18_ToleranciaParcial ==
    (CorridaCompleta /\ FrescaConFalloParcial) =>
        /\ \A n \in NombresPipeline \ fallidas_corrida :
              PersistidaEnEstaCorrida(n)
        /\ Completadas(checkpoint_disco) \cap fallidas_corrida = {}
        /\ proyecto_md.existe
        /\ \A n \in NombresPipeline \ fallidas_corrida :
              \E k \in DOMAIN proyecto_md.bloques :
                 proyecto_md.bloques[k]
                    = [seccion |-> n, tipo |-> "contenido",
                       archivo |-> ArchivoSeccion(n, corridas_s)]
        /\ \A n \in fallidas_corrida :
              \E k \in DOMAIN proyecto_md.bloques :
                 /\ proyecto_md.bloques[k].seccion = n
                 /\ proyecto_md.bloques[k].tipo = "pendiente"
        /\ checkpoint_disco.estado = "documento_parcial"

\* The second of the three sections failed in a fresh run that went to its
\* end.
C18_Witness ==
    /\ CorridaCompleta
    /\ ~habia_checkpoint
    /\ fallidas_corrida = {"formalidades"}
    /\ generadas_corrida = NombresPipeline

\* C19: final-state rule.  When a run has attempted or skipped every
\* section, the state in the checkpoint file is documento_generado if every
\* section of the pipeline is completed and documento_parcial otherwise,
\* whatever the outcomes were (all succeed, some fail, all fail).
C19_EstadoFinal ==
    CorridaCompleta =>
        checkpoint_disco.estado
           = IF Completadas(checkpoint_disco) = NombresPipeline
             THEN "documento_generado"
             ELSE "documento_parcial"

\* The run has written its composite document.
DocumentoEnsamblado ==
    \/ pc_s = "ensamblado"
    \/ (pc_s = "fin" /\ Completadas(progreso_existente) # {})

\* C20: composite completeness.  The composite a run writes has, for every
\* section of the pipeline, exactly one block, in pipeline order: the
\* generated content of the section if the section is in the completed set
\* of the checkpoint, a placeholder otherwise; and its footer lists exactly
\* the names that are not in the completed set.
C20_CompuestoCompleto ==
    DocumentoEnsamblado =>
        /\ proyecto_md.existe
        /\ Len(proyecto_md.bloques) = Len(PipelineSecciones)
        /\ \A k \in DOMAIN PipelineSecciones :
              /\ proyecto_md.bloques[k].seccion = PipelineSecciones[k]
              /\ IF PipelineSecciones[k] \in Completadas(checkpoint_disco)
                 THEN /\ proyecto_md.bloques[k].tipo = "contenido"
                      /\ proyecto_md.bloques[k].archivo
                            = checkpoint_disco.secciones_completadas[
                                 PipelineSecciones[k]].archivo
                 ELSE proyecto_md.bloques[k].tipo = "pendiente"
        /\ Elementos(proyecto_md.pendientes)
              = NombresPipeline \ Completadas(checkpoint_disco)
        /\ Len(proyecto_md.pendientes)
              = Cardinality(NombresPipeline \ Completadas(checkpoint_disco))

\* A resumed run that found the first section completed, failed the second
\* and completed the third has written its composite.
C20_Witness ==
    /\ DocumentoEnsamblado
    /\ habia_checkpoint
    /\ completadas_inicio = {"antecedentes"}
    /\ Completadas(checkpoint_disco) = {"antecedentes", "procedencia"}
    /\ proyecto_md.bloques[2].tipo = "pendiente"
    /\ proyecto_md.pendientes = << "formalidades" >>

\* The run is between two section attempts, with at least one attempt made.
EntreIntentos == pc_s = "loop" /\ generadas_corrida # {}

\* The file records a failure of the section in the current run.
FalloRegistrado(n) ==
    \E k \in DOMAIN checkpoint_disco.errores :
        /\ checkpoint_disco.errores[k].seccion = n
        /\ checkpoint_disco.errores[k].timestamp = corridas_s

\* C21: checkpoint consistency.  After every section attempt, successful or
\* failed, the checkpoint file equals the checkpoint in memory: between two
\* attempts its completed set has every section whose artifact the run has
\* persisted, every completed entry names an artifact that is in reporte/,
\* and its failure list has every failure of the run, so the death of the
\* process between sections loses no completed section.
C21_CheckpointConsistente ==
    EntreIntentos =>
        /\ checkpoint_disco = progreso_existente
        /\ \A n \in generadas_corrida \ fallidas_corrida :
              PersistidaEnEstaCorrida(n)
        /\ Completadas(checkpoint_disco) \cap fallidas_corrida = {}
        /\ \A n \in Completadas(checkpoint_disco) :
              checkpoint_disco.secciones_completadas[n].archivo
                 \in archivos_seccion
        /\ \A n \in fallidas_corrida : FalloRegistrado(n)

\* Between the second and the third section, after one success and one
\* failure.
C21_Witness ==
    /\ EntreIntentos
    /\ idx_s = 3
    /\ generadas_corrida = {"antecedentes", "formalidades"}
    /\ fallidas_corrida = {"formalidades"}

\* The step begins an attempt: the service is asked for a section.
ComienzaIntento == pc_s = "loop" /\ pc_s' = "generando"

\* The step ends an attempt in failure.
TerminaEnFallo ==
    pc_s = "generando" /\ pc_s' = "loop"
       /\ fallidas_corrida' # fallidas_corrida

\* The step ends an attempt in success.
TerminaEnExito == pc_s = "actualizar" /\ pc_s' = "loop"

\* Sections before position k of the pipeline.
Anteriores(k) == {PipelineSecciones[j] : j \in 1 .. (k - 1)}

\* An attempt is for the section at the loop's position, not attempted
\* before in the run, with every earlier section completed at the start or
\* attempted already; a failure appends one failure record for it and
\* nothing else; a success adds its completed entry and nothing else.
UnIntentoPorSeccion ==
    /\ ComienzaIntento =>
          /\ NombreSeccion \notin generadas_corrida
          /\ generadas_corrida' = generadas_corrida \cup {NombreSeccion}
          /\ Anteriores(idx_s) \subseteq
                (completadas_inicio \cup generadas_corrida)
    /\ TerminaEnFallo =>
          /\ Len(progreso_existente'.errores)
                = Len(progreso_existente.errores) + 1
          /\ SubSeq(progreso_existente'.errores, 1,
                    Len(progreso_existente.errores))
                = progreso_existente.errores
          /\ progreso_existente'.errores[Len(progreso_existente'.errores)]
                .seccion = NombreSeccion
          /\ progreso_existente'.secciones_completadas
                = progreso_existente.secciones_completadas
          /\ idx_s' = idx_s + 1
    /\ TerminaEnExito =>
          /\ NombreSeccion \notin Completadas(progreso_existente)
          /\ Completadas(progreso_existente')
                = Completadas(progreso_existente) \cup {NombreSeccion}
          /\ \A n \in Completadas(progreso_existente) :
                progreso_existente'.secciones_completadas[n]
                   = progreso_existente.secciones_completadas[n]
          /\ progreso_existente'.errores = progreso_existente.errores
          /\ idx_s' = idx_s + 1

\* C30: attempt-once.  In a run of the pipeline every section not in the
\* completed set at the start is attempted exactly once, in pipeline
\* order, whatever happened to the sections before it; each failed attempt
\* appends exactly one failure record and each successful attempt adds
\* exactly one completed entry.
C30_UnIntentoEnOrden ==
    /\ [](CorridaCompleta =>
             /\ (NombresPipeline \ completadas_inicio)
                   \subseteq generadas_corrida
             /\ \A n \in generadas_corrida :
                   (n \in fallidas_corrida)
                      # (n \in Completadas(progreso_existente)))
    /\ [][UnIntentoPorSeccion]_vars

\* A complete run that started with the second section completed: the
\* first failed, the third was still attempted and succeeded.
C30_Witness ==
    /\ CorridaCompleta
    /\ completadas_inicio = {"formalidades"}
    /\ generadas_corrida = {"antecedentes", "procedencia"}
    /\ fallidas_corrida = {"antecedentes"}
    /\ Completadas(checkpoint_disco) = {"formalidades", "procedencia"}

\* Values of progreso['estado'] (lines 739, 746, 722).
EstadosCheckpoint ==
    {"iniciando", "resumiendo", "documento_generado", "documento_parcial"}

EstadosFinales == {"documento_generado", "documento_parcial"}

\* cargar_checkpoint has returned and the loop has not begun its first turn.
RecienCargado == pc_s = "loop" /\ idx_s = 1 /\ generadas_corrida = {}

\* C31: checkpoint lifecycle.  The stored state is one of iniciando,
\* resumiendo, documento_generado, documento_parcial; a run that finds no
\* checkpoint starts in iniciando with nothing completed, no failure and
\* cost zero; a run that finds one starts in resumiendo with what the file
\* holds; and a final state is set only once every section has been
\* attempted or skipped.
C31_CicloDeVida ==
    /\ checkpoint_disco.existe => checkpoint_disco.estado \in EstadosCheckpoint
    /\ pc_s \notin {"idle", "cargar"} =>
          progreso_existente.estado \in EstadosCheckpoint
    /\ (RecienCargado /\ ~habia_checkpoint) =>
          progreso_existente = CheckpointInicial
    /\ (RecienCargado /\ habia_checkpoint) =>
          progreso_existente
             = [checkpoint_disco EXCEPT !.estado = "resumiendo"]
    /\ (pc_s \notin {"idle", "cargar"}
           /\ progreso_existente.estado \in EstadosFinales) =>
          idx_s > Len(PipelineSecciones)

\* The sum of the cost recorded in the completed-section entries.
RECURSIVE SumaTokens(_)
SumaTokens(completadas) ==
    IF DOMAIN completadas = {} THEN 0
    ELSE LET n == CHOOSE x \in DOMAIN completadas : TRUE
             resto == [x \in DOMAIN completadas \ {n} |-> completadas[x]]
         IN  completadas[n].tokens + SumaTokens(resto)

\* A step of the section loop that records a failure or skips a section.
FalloUOmision ==
    \/ pc_s = "generando" /\ pc_s' = "loop"
    \/ pc_s = "loop" /\ pc_s' = "loop" /\ idx_s' # idx_s

RECURSIVE UnirConEspacios(_)
UnirConEspacios(lista) ==
    IF lista = << >> THEN << >>
    ELSE IF Len(lista) = 1 THEN lista[1]
         ELSE lista[1] \o << " " >> \o UnirConEspacios(Tail(lista))

\* A splitter has returned.
CitaPartida == pc_q \in {"chunks", "cita"}

\* The words of the fragments joined with single blanks are the words of
\* the original text, in order.
SinPerdida == Split(UnirConEspacios(fragmentos)) = Split(cita_texto)

\* Every word of the quote fits in one fragment.
PalabrasCaben == \A k \in DOMAIN Split(cita_texto) :
                    Len(Split(cita_texto)[k]) <= MaxChars

\* The fragments the word loop gives before any cut to MaxFragmentos.
FragmentosNecesarios ==
    BuclePalabras(Split(cita_texto), 1, << >>, << >>, MaxChars)

C26_FragmentosAcotados ==
    CitaPartida =>
        /\ \A k \in DOMAIN fragmentos : Len(fragmentos[k]) <= MaxChars
        /\ Len(fragmentos) <= MaxFragmentos

\* C34: the artifact persisted on success is the validated extraction,
\* with oversized quotes split: its quotes are the ones schema validation
\* produced, each within the schema's maximum quote length.
C34_ArtefactoValidado ==
    pc_q = "artefacto" =>
        /\ citas_artefacto = PartirCitasLargas(cita_texto)
        /\ \A k \in DOMAIN citas_artefacto :
              Len(citas_artefacto[k]) <= LargoMaximoCita

\* ---------------------------------------------------------------------
\* Properties of main()
\* ---------------------------------------------------------------------

\* The process has ended.
ProcesoTerminado == pc_m = "terminado"

\* Standard input answers every prompt: the three fixed ones and the
\* collaborator loop up to its empty line.
EntradaSuficiente ==
    \E k \in (PreguntasFijas + 1) .. Len(stdin_lineas) : stdin_lineas[k] = ""

FasesDe(m) ==
    CASE m = "extraccion" -> << "extraccion" >>
      [] m = "contexto" -> << "contexto" >>
      [] m = "secciones" -> << "secciones" >>
      [] m = "completo" -> << "extraccion", "contexto", "secciones" >>

\* Call and return of each of those phases, one after the other.
TrazaEsperada(m) ==
    [k \in 1 .. (2 * Len(FasesDe(m))) |->
        Evento(IF k % 2 = 1 THEN "llamada" ELSE "retorno",
               FasesDe(m)[(k + 1) \div 2])]

\* The phases are over: main() is at the prompts or has ended past them.
FasesConcluidas ==
    \/ pc_m \in {"captura", "colaboradores"}
    \/ (ProcesoTerminado /\ ~senal_m /\ ruta = "carpeta")

\* C29: mode selector.  The calls and returns of the phases are at every
\* moment a prefix of call, return of each phase the mode names, in
\* the order extraction, consolidation, section generation; once the
\* phases are over they are exactly that sequence.
C29_FasesDelModo ==
    /\ Len(traza) <= Len(TrazaEsperada(modo))
    /\ traza = SubSeq(TrazaEsperada(modo), 1, Len(traza))
    /\ FasesConcluidas => traza = TrazaEsperada(modo)

\* The mode "completo" has run its three phases and reached the prompts.
C29_Witness ==
    /\ modo = "completo"
    /\ pc_m = "captura"
    /\ traza = TrazaEsperada("completo")

====
